---- MODULE Spec2Model ----
(***************************************************************************)
(* A model of flux: the settings store (internal/config), the external     *)
(* runner (internal/ansible) and the menu front end (internal/tui).        *)
(*                                                                         *)
(* Strings are sequences of one-character strings, so that trimming,       *)
(* splitting, backspace and comparison are computed as the code computes   *)
(* them.  A Go nil pointer or nil slice is a record with nil |-> TRUE.     *)
(***************************************************************************)
EXTENDS Integers, Sequences, FiniteSets, TLC

VARIABLES
    \* ---- settings store (config.go) ----
    file,        \* the settings file at FilePath(): [state, data]
    doc,         \* the document handed to Save
    storePc,     \* position of the Save/Load caller
    saveErr,     \* error returned by Save
    loaded,      \* result of Load: [nil, doc]
    loadErr,     \* error returned by Load
    \* ---- RunPlaybook / RunPlaybookStreaming (runner.go) ----
    rIn,         \* the call: [variant, dryRun, tags, hasVars, root, pass]
    rPc,         \* position inside the call
    rArgs,       \* args built so far
    rCmd,        \* the argument list handed to exec.Command, <<>> before
    rTmp,        \* the temporary password file: [exists, perm, content]
    rDefer,      \* whether `defer os.Remove(tmpFile.Name())` is registered
    rErr,        \* the value returned
    \* ---- runCmdStreaming (runner.go) ----
    qIn,         \* what the subprocess does: [lines, lastNl, status]
    qMain,       \* position of the calling goroutine
    qRet,        \* the value runCmdStreaming returns
    qProc,       \* the subprocess: "none", "running", "exited"
    qWritten,    \* number of lines the subprocess has written
    qPipe,       \* the OS pipe between the subprocess and os/exec's copier
    qCopier,     \* os/exec's copying goroutine: [pc, item]
    qReader,     \* the reader goroutine: "none", "scan", "done"
    qBuf,        \* the scanner's buffered unterminated line (0: none)
    qDelivered,  \* the lines handed to onOutput, in order
    qDone,       \* the channel `done` (capacity 1)
    qPwClosed,   \* pw.Close() was called
    qPrClosed,   \* pr.Close() was called
    \* ---- the menu (tui.go) ----
    m,           \* the tea model: the fields of `type model`
    cmds,        \* commands returned by Update that are still running
    msgs,        \* completion messages sent and not yet handled by Update
    typed,       \* characters typed or erased in the edit screen so far
    selHist,     \* the selections before the last presses of 'a' in a row
    \* ---- the command line (main.go, RunPlaybookCLI) ----
    cIn,         \* the invocation: [cmd, stdin, dryRun, file]
    cPc,         \* position inside the command
    cCfg,        \* the settings document the command holds
    cOut,        \* the messages printed so far, in order
    cAsked,      \* the fields the prompter asked for, in order
    cSteps,      \* the steps of the run attempted so far, in order
    cExit,       \* the exit status: "none", "0", "1"
    \* ---- one call of a function without receiver state ----
    fIn,         \* the call: its arguments and what the environment answers
    fPc,         \* "idle", "call", "done"; or the position inside the call
    fOut         \* what the call has produced so far; its result when done

storeVars == <<file, doc, storePc, saveErr, loaded, loadErr>>
runVars   == <<rIn, rPc, rArgs, rCmd, rTmp, rDefer, rErr>>

streamVars == <<qIn, qMain, qRet, qProc, qWritten, qPipe, qCopier, qReader,
                qBuf, qDelivered, qDone, qPwClosed, qPrClosed>>

menuVars == <<m, cmds, msgs, typed, selHist>>

cliVars == <<cIn, cPc, cCfg, cOut, cAsked, cSteps, cExit>>

callVars == <<fIn, fPc, fOut>>

vars == <<storeVars, runVars, streamVars, menuVars, cliVars, callVars>>

\* what the actions of one component leave alone
StoreFrame  == UNCHANGED <<runVars, streamVars, menuVars, cliVars, callVars>>
RunFrame    == UNCHANGED <<storeVars, streamVars, menuVars, cliVars, callVars>>
StreamFrame == UNCHANGED <<storeVars, runVars, menuVars, cliVars, callVars>>
MenuFrame   == UNCHANGED <<doc, storePc, saveErr, loaded, loadErr,
                           runVars, streamVars, cliVars, callVars>>
CallFrame   == UNCHANGED <<storeVars, runVars, streamVars, menuVars, cliVars>>
CliFrame    == UNCHANGED <<doc, storePc, saveErr, loaded, loadErr,
                           runVars, streamVars, menuVars, callVars>>

-----------------------------------------------------------------------------
(* Bounds of the model *)

\* longest extra-packages list drawn as an input
MaxPkgs == 2

\* most lines a subprocess writes
MaxLines == 2

\* lines the OS pipe holds before the subprocess blocks
PipeCap == 1

\* most characters typed or erased in the edit screen over a session
MaxTyped == 1

\* most lines of standard input that are not empty
MaxAnswers == 1

\* deepest working directory drawn as an input: its number of ancestors
MaxDepth == 11

\* most playbook.yml entries present among the candidate directories
MaxEntries == 2

\* longest package text drawn character by character
MaxText == 3

\* most lines answered to one prompt
MaxTries == 2

-----------------------------------------------------------------------------
(* String literals of the source, as character sequences *)

sEmpty   == <<>>
sZsh     == <<"z","s","h">>
sBash    == <<"b","a","s","h">>
sTrue    == <<"t","r","u","e">>
sFalse   == <<"f","a","l","s","e">>
sNull    == <<"n","u","l","l">>
sTilde   == <<"~">>
sLatest  == <<"l","a","t","e","s","t">>
sPodmanMachine == <<"p","o","d","m","a","n","-","m","a","c","h","i","n","e">>
sLocalhost == <<"l","o","c","a","l","h","o","s","t">>
s22      == <<"2","2">>
s1_26    == <<"1",".","2","6">>
s10_0    == <<"1","0",".","0">>
s3_13    == <<"3",".","1","3">>
sRipgrep == <<"r","i","p","g","r","e","p">>
sFdFind  == <<"f","d","-","f","i","n","d">>
sJq      == <<"j","q">>
sHtop    == <<"h","t","o","p">>
sUser    == <<"j","o","e">>

\* a Go []string: nil, or a (possibly empty) sequence
NilList == [nil |-> TRUE, items |-> <<>>]
List(s) == [nil |-> FALSE, items |-> s]

-----------------------------------------------------------------------------
(* The settings document: type Config *)

KeySeq ==
    << "username", "email", "git_name", "git_email", "git_https",
       "default_shell", "install_podman", "podman_wsl_distro",
       "podman_wsl_host", "podman_wsl_port", "install_bun", "install_go",
       "go_version", "install_dotnet", "dotnet_version", "install_python",
       "python_version", "extra_packages" >>

Keys == { KeySeq[i] : i \in 1..Len(KeySeq) }

BoolKeys == { "git_https", "install_podman", "install_bun", "install_go",
              "install_dotnet", "install_python" }

ListKeys == { "extra_packages" }

StringKeys == Keys \ (BoolKeys \cup ListKeys)

\* the fields tagged `omitempty`
OmitEmptyKeys_NotList ==
    { "podman_wsl_distro", "podman_wsl_host", "podman_wsl_port",
      "go_version", "dotnet_version", "python_version" }

OmitEmptyKeys ==
    { "podman_wsl_distro", "podman_wsl_host", "podman_wsl_port",
      "go_version", "dotnet_version", "python_version", "extra_packages" }

\* os.Getenv("USER")
whoami == sUser

DefaultConfig ==
    [ username          |-> whoami,
      email             |-> sEmpty,
      git_name          |-> sEmpty,
      git_email         |-> sEmpty,
      git_https         |-> TRUE,
      default_shell     |-> sZsh,
      install_podman    |-> TRUE,
      podman_wsl_distro |-> sPodmanMachine,
      podman_wsl_host   |-> sLocalhost,
      podman_wsl_port   |-> s22,
      install_bun       |-> TRUE,
      install_go        |-> TRUE,
      go_version        |-> s1_26,
      install_dotnet    |-> TRUE,
      dotnet_version    |-> s10_0,
      install_python    |-> TRUE,
      python_version    |-> s3_13,
      extra_packages    |-> List(<<sRipgrep, sFdFind, sJq, sHtop>>) ]

\* the Go zero value of a field
ZeroOf(k) ==
    IF k \in BoolKeys THEN FALSE
    ELSE IF k \in ListKeys THEN NilList
    ELSE sEmpty

ZeroConfig_Defaults == DefaultConfig

\* `var cfg Config` in Load
ZeroConfig == [k \in Keys |-> ZeroOf(k)]

-----------------------------------------------------------------------------
(* yaml.v3 Marshal / Unmarshal of a Config *)

\* plain scalars that yaml resolves to something other than a string
PlainNonStrings == { sEmpty, sTilde, sNull, sTrue, sFalse, s22, s1_26, s10_0, s3_13 }

\* plain scalars that resolve to null
PlainNulls == { sEmpty, sTilde, sNull }

\* the encoder quotes a string that would not read back as a string
EncString(s) ==
    [ style |-> IF s \in PlainNonStrings THEN "quoted" ELSE "plain", text |-> s ]

\* decoding a scalar node into a string field
DecString(n) ==
    IF n.style = "plain" /\ n.text \in PlainNulls THEN sEmpty ELSE n.text

\* omitempty: the zero value, and for a slice any empty one
IsEmptyValue(k, v) ==
    IF k \in BoolKeys THEN v = FALSE
    ELSE IF k \in ListKeys THEN v.nil \/ Len(v.items) = 0
    ELSE v = sEmpty

EncValue(k, v) ==
    IF k \in BoolKeys THEN v
    ELSE IF k \in ListKeys THEN [i \in 1..Len(v.items) |-> EncString(v.items[i])]
    ELSE EncString(v)

DecValue(k, n) ==
    IF k \in BoolKeys THEN n
    ELSE IF k \in ListKeys THEN List([i \in 1..Len(n) |-> DecString(n[i])])
    ELSE DecString(n)

\* yaml.Marshal(cfg): the mapping written, key by key
Marshal(c) ==
    [ k \in { x \in Keys : ~(x \in OmitEmptyKeys /\ IsEmptyValue(x, c[x])) }
        |-> EncValue(k, c[k]) ]

\* yaml.Unmarshal(data, &cfg): keys present overwrite cfg, others are left
Unmarshal(data, cfg) ==
    [ k \in Keys |-> IF k \in DOMAIN data THEN DecValue(k, data[k]) ELSE cfg[k] ]

-----------------------------------------------------------------------------
(* The settings file *)

NoData      == [k \in {} |-> FALSE]
AbsentFile  == [state |-> "absent",  data |-> NoData]
CorruptFile == [state |-> "corrupt", data |-> NoData]
FileWith(d) == [state |-> "ok", data |-> d]

NilCfg   == [nil |-> TRUE,  doc |-> NoData]
Cfg(d)   == [nil |-> FALSE, doc |-> d]

\* Load(): (cfg, err)
LoadErrOf(f) ==
    CASE f.state = "absent"  -> "not_exist"
      [] f.state = "corrupt" -> "invalid_config"
      [] OTHER               -> "nil"

LoadCfgOf(f) ==
    IF f.state = "ok" THEN Cfg(Unmarshal(f.data, ZeroConfig)) ELSE NilCfg

\* what a failed Save may leave behind: MkdirAll or the open failed (nothing
\* changed), or WriteFile failed after truncating the file
FailedSaveFiles(f) == { f, FileWith(NoData), CorruptFile }

-----------------------------------------------------------------------------
(* Inputs of the store specification *)

StrInputs == { sEmpty, sZsh, sTilde, s1_26 }

PkgInputs ==
    { NilList } \cup
    { List(s) : s \in UNION { [1..n -> {sJq, sTrue}] : n \in 0..MaxPkgs } }

\* a document whose plain strings are p, whose omitempty strings are o,
\* whose booleans are b and whose list is l
DocOf(p, o, b, l) ==
    [ k \in Keys |->
        IF k \in BoolKeys THEN b
        ELSE IF k \in ListKeys THEN l
        ELSE IF k \in OmitEmptyKeys THEN o
        ELSE p ]

DocInputs ==
    { DocOf(p, o, b, l) : p \in StrInputs, o \in StrInputs,
                          b \in BOOLEAN, l \in PkgInputs }

FileInputs == { AbsentFile, CorruptFile, FileWith(Marshal(DefaultConfig)) }

\* a settings file written by hand that holds the username only
PartialFile == FileWith([k \in {"username"} |-> EncString(sUser)])

StoreIdle ==
    /\ file = AbsentFile
    /\ doc = NoData
    /\ storePc = "idle"
    /\ saveErr = "nil"
    /\ loaded = NilCfg
    /\ loadErr = "nil"

StoreInit ==
    /\ file \in FileInputs \cup {PartialFile}
    /\ doc \in DocInputs
    /\ storePc = "start"
    /\ saveErr = "nil"
    /\ loaded = NilCfg
    /\ loadErr = "nil"

\* Save(cfg) returning nil
SaveOk ==
    /\ storePc = "start"
    /\ file' = FileWith(Marshal(doc))
    /\ saveErr' = "nil"
    /\ storePc' = "saved"
    /\ UNCHANGED <<doc, loaded, loadErr>>
    /\ StoreFrame

\* Save(cfg) returning the error of MkdirAll or WriteFile
SaveFail ==
    /\ storePc = "start"
    /\ file' \in FailedSaveFiles(file)
    /\ saveErr' = "io_error"
    /\ storePc' = "saved"
    /\ UNCHANGED <<doc, loaded, loadErr>>
    /\ StoreFrame

\* Load()
Load ==
    /\ storePc = "saved"
    /\ loaded' = LoadCfgOf(file)
    /\ loadErr' = LoadErrOf(file)
    /\ storePc' = "loaded"
    /\ UNCHANGED <<file, doc, saveErr>>
    /\ StoreFrame

StoreNext == SaveOk \/ SaveFail \/ Load

-----------------------------------------------------------------------------
(* RunPlaybook and RunPlaybookStreaming *)

NoTmp == [exists |-> FALSE, perm |-> "none", content |-> ""]

DryRunFlags_CheckOnly == <<"--check">>

\* the flags appended when dryRun is set
DryRunFlags == <<"--check", "--diff">>

BaseArgs == <<"ansible/playbook.yml", "-i", "ansible/inventory.ini", "--connection=local">>

\* args after the extra vars, the tags and the dry-run flags were appended
BuiltArgs(in) ==
    BaseArgs
      \o (IF in.hasVars THEN <<"--extra-vars", "{json}">> ELSE <<>>)
      \o (IF in.tags # "" THEN <<"--tags", in.tags>> ELSE <<>>)
      \o (IF in.dryRun THEN DryRunFlags ELSE <<>>)

TagInputs == { "", "base,shell", "--check", "--diff" }

RunInputs ==
    [ variant : {"plain", "streaming"}, dryRun : BOOLEAN, tags : TagInputs,
      hasVars : BOOLEAN, root : BOOLEAN, pass : {"", "secret"} ]

RunIdle ==
    /\ rIn = [variant |-> "plain", dryRun |-> FALSE, tags |-> "",
              hasVars |-> FALSE, root |-> FALSE, pass |-> ""]
    /\ rPc = "idle"
    /\ rArgs = <<>>
    /\ rCmd = <<>>
    /\ rTmp = NoTmp
    /\ rDefer = FALSE
    /\ rErr = "none"

RunInit ==
    /\ rIn \in { in \in RunInputs : in.variant = "plain" => in.pass = "" }
    /\ rPc = "entry"
    /\ rArgs = <<>>
    /\ rCmd = <<>>
    /\ rTmp = NoTmp
    /\ rDefer = FALSE
    /\ rErr = "none"

\* a return statement: the deferred os.Remove runs, then the call returns e
Return(e) ==
    /\ rPc' = "returned"
    /\ rErr' = e
    /\ rTmp' = IF rDefer THEN NoTmp ELSE rTmp
    /\ UNCHANGED <<rIn, rArgs, rCmd, rDefer>>

\* os.Stat(playbook) fails
StatFail ==
    /\ rPc = "entry"
    /\ Return("playbook_not_found")
    /\ RunFrame

\* json.Marshal(extraVars) fails
MarshalFail ==
    /\ rPc = "entry"
    /\ rIn.hasVars
    /\ Return("marshal_failed")
    /\ RunFrame

\* the playbook exists and the args up to the dry-run flags are built
BuildArgs ==
    /\ rPc = "entry"
    /\ rArgs' = BuiltArgs(rIn)
    /\ rPc' = "elevate"
    /\ UNCHANGED <<rIn, rCmd, rTmp, rDefer, rErr>>
    /\ RunFrame

ElevateRoot_Asks ==
    /\ rPc = "elevate"
    /\ rIn.root
    /\ rArgs' = rArgs \o <<"--ask-become-pass">>
    /\ rPc' = "launch"
    /\ UNCHANGED <<rIn, rCmd, rTmp, rDefer, rErr>>
    /\ RunFrame

\* running as root: no elevation argument
ElevateRoot ==
    /\ rPc = "elevate"
    /\ rIn.root
    /\ rPc' = "launch"
    /\ UNCHANGED <<rIn, rArgs, rCmd, rTmp, rDefer, rErr>>
    /\ RunFrame

\* not root and (RunPlaybook, or no password supplied): --ask-become-pass
ElevateAsk ==
    /\ rPc = "elevate"
    /\ ~rIn.root
    /\ rIn.variant = "plain" \/ rIn.pass = ""
    /\ rArgs' = rArgs \o <<"--ask-become-pass">>
    /\ rPc' = "launch"
    /\ UNCHANGED <<rIn, rCmd, rTmp, rDefer, rErr>>
    /\ RunFrame

\* os.CreateTemp fails
CreateTempFail ==
    /\ rPc = "elevate"
    /\ ~rIn.root /\ rIn.variant = "streaming" /\ rIn.pass # ""
    /\ Return("create_temp_failed")
    /\ RunFrame

CreateTempOk_NoDefer ==
    /\ rPc = "elevate"
    /\ ~rIn.root /\ rIn.variant = "streaming" /\ rIn.pass # ""
    /\ rTmp' = [exists |-> TRUE, perm |-> "0600", content |-> ""]
    /\ rPc' = "write"
    /\ UNCHANGED <<rIn, rArgs, rCmd, rDefer, rErr>>
    /\ RunFrame

\* os.CreateTemp succeeds and the removal is deferred
CreateTempOk ==
    /\ rPc = "elevate"
    /\ ~rIn.root /\ rIn.variant = "streaming" /\ rIn.pass # ""
    /\ rTmp' = [exists |-> TRUE, perm |-> "0600", content |-> ""]
    /\ rDefer' = TRUE
    /\ rPc' = "write"
    /\ UNCHANGED <<rIn, rArgs, rCmd, rErr>>
    /\ RunFrame

\* tmpFile.WriteString fails: Close, return
WriteFail ==
    /\ rPc = "write"
    /\ Return("write_failed")
    /\ RunFrame

\* tmpFile.WriteString succeeds, Close
WriteOk ==
    /\ rPc = "write"
    /\ rTmp' = [rTmp EXCEPT !.content = rIn.pass]
    /\ rPc' = "chmod"
    /\ UNCHANGED <<rIn, rArgs, rCmd, rDefer, rErr>>
    /\ RunFrame

\* os.Chmod fails
ChmodFail ==
    /\ rPc = "chmod"
    /\ Return("chmod_failed")
    /\ RunFrame

\* os.Chmod(0600) succeeds and --become-password-file is appended
ChmodOk ==
    /\ rPc = "chmod"
    /\ rTmp' = [rTmp EXCEPT !.perm = "0600"]
    /\ rArgs' = rArgs \o <<"--become-password-file", "/tmp/flux-become-1">>
    /\ rPc' = "launch"
    /\ UNCHANGED <<rIn, rCmd, rDefer, rErr>>
    /\ RunFrame

\* exec.Command("ansible-playbook", args...) fails to start
StartFail ==
    /\ rPc = "launch"
    /\ rPc' = "returned"
    /\ rErr' = "start_failed"
    /\ rCmd' = rArgs
    /\ rTmp' = IF rDefer THEN NoTmp ELSE rTmp
    /\ UNCHANGED <<rIn, rArgs, rDefer>>
    /\ RunFrame

\* the subprocess starts
StartOk ==
    /\ rPc = "launch"
    /\ rCmd' = rArgs
    /\ rPc' = "running"
    /\ UNCHANGED <<rIn, rArgs, rTmp, rDefer, rErr>>
    /\ RunFrame

\* the subprocess exits with status 0 and the call returns nil
ExitOk ==
    /\ rPc = "running"
    /\ Return("nil")
    /\ RunFrame

\* the subprocess exits with a non-zero status and the call returns it
ExitFail ==
    /\ rPc = "running"
    /\ Return("exit_status")
    /\ RunFrame

RunNext ==
    \/ StatFail \/ MarshalFail \/ BuildArgs
    \/ ElevateRoot \/ ElevateAsk
    \/ CreateTempFail \/ CreateTempOk
    \/ WriteFail \/ WriteOk \/ ChmodFail \/ ChmodOk
    \/ StartFail \/ StartOk \/ ExitOk \/ ExitFail

-----------------------------------------------------------------------------
(* runCmdStreaming: the subprocess, os/exec's copier, the reader goroutine *)
(* and the caller.  Sizes are in KiB.                                      *)

\* scanner.Buffer(..., 512*1024): a token must be shorter than this
ScanMaxKiB == 512

LineLens == { 1, ScanMaxKiB, ScanMaxKiB + 1 }

StreamInputs ==
    [ lines  : UNION { [1..n -> LineLens] : n \in 0..MaxLines },
      lastNl : BOOLEAN,
      status : {"nil", "exit_status"} ]

\* line i ends with a newline
HasNl(i) == i < Len(qIn.lines) \/ qIn.lastNl

\* what is left of line i once the scanner's buffer is full
Residual(i) == qIn.lines[i] - ScanMaxKiB + (IF HasNl(i) THEN 1 ELSE 0)

StreamIdle ==
    /\ qIn = [lines |-> <<>>, lastNl |-> TRUE, status |-> "nil"]
    /\ qMain = "idle"
    /\ qRet = "none"
    /\ qProc = "none"
    /\ qWritten = 0
    /\ qPipe = <<>>
    /\ qCopier = [pc |-> "none", item |-> 0]
    /\ qReader = "none"
    /\ qBuf = 0
    /\ qDelivered = <<>>
    /\ qDone = <<>>
    /\ qPwClosed = FALSE
    /\ qPrClosed = FALSE

StreamInit ==
    /\ qIn \in StreamInputs
    /\ qMain = "start"
    /\ qRet = "none"
    /\ qProc = "none"
    /\ qWritten = 0
    /\ qPipe = <<>>
    /\ qCopier = [pc |-> "none", item |-> 0]
    /\ qReader = "none"
    /\ qBuf = 0
    /\ qDelivered = <<>>
    /\ qDone = <<>>
    /\ qPwClosed = FALSE
    /\ qPrClosed = FALSE

\* cmd.Start() fails: both pipe ends are closed and the error returned
CmdStartFail ==
    /\ qMain = "start"
    /\ qPwClosed' = TRUE
    /\ qPrClosed' = TRUE
    /\ qRet' = "start_failed"
    /\ qMain' = "returned"
    /\ UNCHANGED <<qIn, qProc, qWritten, qPipe, qCopier, qReader, qBuf,
                   qDelivered, qDone>>
    /\ StreamFrame

\* cmd.Start() succeeds (the subprocess and the copier run), the reader
\* goroutine is started and the caller enters cmd.Wait()
CmdStartOk ==
    /\ qMain = "start"
    /\ qProc' = "running"
    /\ qCopier' = [pc |-> "read", item |-> 0]
    /\ qReader' = "scan"
    /\ qMain' = "wait"
    /\ UNCHANGED <<qIn, qRet, qWritten, qPipe, qBuf, qDelivered, qDone,
                   qPwClosed, qPrClosed>>
    /\ StreamFrame

\* the subprocess writes its next line to stdout or stderr (one pipe)
ProcWrite ==
    /\ qProc = "running"
    /\ qWritten < Len(qIn.lines)
    /\ Len(qPipe) < PipeCap
    /\ qPipe' = Append(qPipe, qWritten + 1)
    /\ qWritten' = qWritten + 1
    /\ UNCHANGED <<qIn, qMain, qRet, qProc, qCopier, qReader, qBuf,
                   qDelivered, qDone, qPwClosed, qPrClosed>>
    /\ StreamFrame

\* the subprocess has written everything and exits
ProcExit ==
    /\ qProc = "running"
    /\ qWritten = Len(qIn.lines)
    /\ qProc' = "exited"
    /\ UNCHANGED <<qIn, qMain, qRet, qWritten, qPipe, qCopier, qReader, qBuf,
                   qDelivered, qDone, qPwClosed, qPrClosed>>
    /\ StreamFrame

\* the copier reads from the OS pipe and calls pw.Write, which blocks until
\* the reader has consumed all of it
CopierRead ==
    /\ qCopier.pc = "read"
    /\ qPipe # <<>>
    /\ qCopier' = [pc |-> "writing", item |-> Head(qPipe)]
    /\ qPipe' = Tail(qPipe)
    /\ UNCHANGED <<qIn, qMain, qRet, qProc, qWritten, qReader, qBuf,
                   qDelivered, qDone, qPwClosed, qPrClosed>>
    /\ StreamFrame

\* the copier reads end-of-file from the OS pipe and finishes
CopierEOF ==
    /\ qCopier.pc = "read"
    /\ qPipe = <<>>
    /\ qProc = "exited"
    /\ qCopier' = [pc |-> "done", item |-> 0]
    /\ UNCHANGED <<qIn, qMain, qRet, qProc, qWritten, qPipe, qReader, qBuf,
                   qDelivered, qDone, qPwClosed, qPrClosed>>
    /\ StreamFrame

\* scanner.Scan() finds a complete line and onOutput is called with it
ReaderDeliver ==
    /\ qReader = "scan"
    /\ qCopier.pc = "writing"
    /\ qIn.lines[qCopier.item] < ScanMaxKiB
    /\ HasNl(qCopier.item)
    /\ qDelivered' = Append(qDelivered, qCopier.item)
    /\ qCopier' = [pc |-> "read", item |-> 0]
    /\ UNCHANGED <<qIn, qMain, qRet, qProc, qWritten, qPipe, qReader, qBuf,
                   qDone, qPwClosed, qPrClosed>>
    /\ StreamFrame

\* the scanner buffers a final line that has no newline yet
ReaderBuffer ==
    /\ qReader = "scan"
    /\ qCopier.pc = "writing"
    /\ qIn.lines[qCopier.item] < ScanMaxKiB
    /\ ~HasNl(qCopier.item)
    /\ qBuf' = qCopier.item
    /\ qCopier' = [pc |-> "read", item |-> 0]
    /\ UNCHANGED <<qIn, qMain, qRet, qProc, qWritten, qPipe, qReader,
                   qDelivered, qDone, qPwClosed, qPrClosed>>
    /\ StreamFrame

\* the buffer is full without a newline: Scan() returns false with
\* ErrTooLong, the goroutine sends on done and ends; what is left of the
\* copier's write is never read
ReaderTooLong ==
    /\ qReader = "scan"
    /\ qCopier.pc = "writing"
    /\ qIn.lines[qCopier.item] >= ScanMaxKiB
    /\ qReader' = "done"
    /\ qDone' = Append(qDone, "too_long")
    /\ qCopier' = IF Residual(qCopier.item) > 0
                     THEN qCopier
                     ELSE [pc |-> "read", item |-> 0]
    /\ UNCHANGED <<qIn, qMain, qRet, qProc, qWritten, qPipe, qBuf,
                   qDelivered, qPwClosed, qPrClosed>>
    /\ StreamFrame

\* the reader sees the closed pipe: a buffered last line is delivered,
\* Scan() returns false, the goroutine sends on done and ends
ReaderEOF ==
    /\ qReader = "scan"
    /\ qPwClosed
    /\ qCopier.pc # "writing"
    /\ qDelivered' = IF qBuf # 0 THEN Append(qDelivered, qBuf) ELSE qDelivered
    /\ qBuf' = 0
    /\ qReader' = "done"
    /\ qDone' = Append(qDone, "nil")
    /\ UNCHANGED <<qIn, qMain, qRet, qProc, qWritten, qPipe, qCopier,
                   qPwClosed, qPrClosed>>
    /\ StreamFrame

\* cmd.Wait() returns: the subprocess exited and the copier finished
WaitReturns ==
    /\ qMain = "wait"
    /\ qProc = "exited"
    /\ qCopier.pc = "done"
    /\ qRet' = qIn.status
    /\ qMain' = "closepw"
    /\ UNCHANGED <<qIn, qProc, qWritten, qPipe, qCopier, qReader, qBuf,
                   qDelivered, qDone, qPwClosed, qPrClosed>>
    /\ StreamFrame

\* pw.Close()
ClosePw ==
    /\ qMain = "closepw"
    /\ qPwClosed' = TRUE
    /\ qMain' = "recv"
    /\ UNCHANGED <<qIn, qRet, qProc, qWritten, qPipe, qCopier, qReader, qBuf,
                   qDelivered, qDone, qPrClosed>>
    /\ StreamFrame

\* <-done, pr.Close(), return err
RecvDone ==
    /\ qMain = "recv"
    /\ qDone # <<>>
    /\ qDone' = Tail(qDone)
    /\ qPrClosed' = TRUE
    /\ qMain' = "returned"
    /\ UNCHANGED <<qIn, qRet, qProc, qWritten, qPipe, qCopier, qReader, qBuf,
                   qDelivered, qPwClosed>>
    /\ StreamFrame

StreamNext ==
    \/ CmdStartFail \/ CmdStartOk
    \/ ProcWrite \/ ProcExit
    \/ CopierRead \/ CopierEOF
    \/ ReaderDeliver \/ ReaderBuffer \/ ReaderTooLong \/ ReaderEOF
    \/ WaitReturns \/ ClosePw \/ RecvDone

-----------------------------------------------------------------------------
(* Go strings functions used by the menu and the prompter *)

\* strings.ToLower, on the letters the inputs use
LowerChar(c) ==
    CASE c = "Y" -> "y" [] c = "E" -> "e" [] c = "S" -> "s"
      [] c = "T" -> "t" [] c = "R" -> "r" [] c = "U" -> "u"
      [] OTHER -> c

ToLower(s) == [i \in 1..Len(s) |-> LowerChar(s[i])]

IsSpace(c) == c = " "

RECURSIVE TrimLeft(_)
TrimLeft(s) ==
    IF s # <<>> /\ IsSpace(Head(s)) THEN TrimLeft(Tail(s)) ELSE s

RECURSIVE TrimRight(_)
TrimRight(s) ==
    IF s # <<>> /\ IsSpace(s[Len(s)]) THEN TrimRight(SubSeq(s, 1, Len(s) - 1)) ELSE s

\* strings.TrimSpace
TrimSpace(s) == TrimRight(TrimLeft(s))

\* strings.Split(s, ","): "" splits into one empty piece
RECURSIVE SplitComma(_)
SplitComma(s) ==
    IF \E i \in 1..Len(s) : s[i] = ","
      THEN LET i == CHOOSE j \in 1..Len(s) :
                      s[j] = "," /\ \A h \in 1..(j - 1) : s[h] # ","
           IN  <<SubSeq(s, 1, i - 1)>> \o SplitComma(SubSeq(s, i + 1, Len(s)))
      ELSE <<s>>

\* strings.Join(items, ", ")
RECURSIVE JoinCommaSpace(_)
JoinCommaSpace(items) ==
    IF items = <<>> THEN <<>>
    ELSE IF Len(items) = 1 THEN items[1]
    ELSE items[1] \o <<",", " ">> \o JoinCommaSpace(Tail(items))

\* the loop `for _, p := range strings.Split(v, ",")`: trim, drop empty
RECURSIVE AppendPackages(_, _)
AppendPackages(acc, pieces) ==
    IF pieces = <<>> THEN acc
    ELSE LET p == TrimSpace(Head(pieces))
         IN  AppendPackages(
                 IF p # <<>> THEN List(Append(acc.items, p)) ELSE acc,
                 Tail(pieces))

ParsePackages_NoTrim(v) ==
    LET kept == SelectSeq(SplitComma(v), LAMBDA p : p # <<>>)
    IN  IF kept = <<>> THEN NilList ELSE List(kept)

ParsePackages(v) == AppendPackages(NilList, SplitComma(v))

\* tui boolStr
boolStr(b) == IF b THEN sTrue ELSE sFalse

sYes == <<"y","e","s">>
sY   == <<"y">>
s1   == <<"1">>

\* tui parseBool
parseBool(s) ==
    LET t == TrimSpace(ToLower(s))
    IN  t = sTrue \/ t = sYes \/ t = sY \/ t = s1

-----------------------------------------------------------------------------
(* PromptForConfig: the prompter reading lines from standard input *)

s1_23 == <<"1",".","2","3">>
s8_0  == <<"8",".","0">>
sDefaultPkgs ==
    sRipgrep \o <<",", " ">> \o sFdFind \o <<",", " ">> \o sJq \o <<",", " ">> \o sHtop

\* the fallback argument of each call of prompt
Fallback(k, c) ==
    CASE k = "username"          -> whoami
      [] k = "email"             -> sEmpty
      [] k = "git_name"          -> c.username
      [] k = "git_email"         -> c.email
      [] k = "default_shell"     -> sZsh
      [] k = "podman_wsl_distro" -> sPodmanMachine
      [] k = "podman_wsl_host"   -> sLocalhost
      [] k = "podman_wsl_port"   -> s22
      [] k = "go_version"        -> s1_23
      [] k = "dotnet_version"    -> s8_0
      [] k = "python_version"    -> s3_13
      [] k = "extra_packages"    -> sDefaultPkgs
      [] OTHER                   -> sEmpty

ParentOf_None(k) == "none"

\* the boolean whose `if cfg.X { ... }` block holds the prompt of a field
ParentOf(k) ==
    CASE k \in {"podman_wsl_distro", "podman_wsl_host", "podman_wsl_port"}
                                 -> "install_podman"
      [] k = "go_version"        -> "install_go"
      [] k = "dotnet_version"    -> "install_dotnet"
      [] k = "python_version"    -> "install_python"
      [] OTHER                   -> "none"

SubFields == { k \in Keys : ParentOf(k) # "none" }

\* prompt(reader, label, current, fallback) on a line read
prompt(line, current, fallback) ==
    LET def == IF current = sEmpty THEN fallback ELSE current
        t   == TrimSpace(line)
    IN  IF t = sEmpty THEN def ELSE t

PromptYes_TuiTokens == { sY, sYes, sTrue, s1 }

\* the lines promptBool takes as yes
PromptYes == { sY, sYes }

\* promptBool(reader, label, current) on a line read
promptBool(line, current) ==
    LET t == TrimSpace(ToLower(line))
    IN  IF t = sEmpty THEN current ELSE t \in PromptYes

\* the packages prompt and the loop after it
PromptPackages(line, current) ==
    ParsePackages(prompt(line, JoinCommaSpace(current.items), sDefaultPkgs))

\* one field of PromptForConfig: st is [cfg, in, asked, err]
PromptField(st, k) ==
    IF st.err # "nil" THEN st
    ELSE IF ParentOf(k) # "none" /\ ~st.cfg[ParentOf(k)] THEN st
    ELSE IF st.in = <<>>
      THEN [st EXCEPT !.err = "EOF", !.asked = Append(st.asked, k)]
      ELSE LET line == Head(st.in)
               v == IF k \in BoolKeys THEN promptBool(line, st.cfg[k])
                    ELSE IF k \in ListKeys THEN PromptPackages(line, st.cfg[k])
                    ELSE prompt(line, st.cfg[k], Fallback(k, st.cfg))
           IN  [st EXCEPT !.cfg[k] = v, !.in = Tail(st.in),
                          !.asked = Append(st.asked, k)]

RECURSIVE PromptFields(_, _)
PromptFields(st, i) ==
    IF i > Len(KeySeq) THEN st
    ELSE PromptFields(PromptField(st, KeySeq[i]), i + 1)

\* PromptForConfig(existing) reading the lines in: [cfg, err, asked]
PromptForConfig(existing, in) ==
    LET st == PromptFields(
                  [cfg |-> IF existing.nil THEN DefaultConfig ELSE existing.doc,
                   in |-> in, asked |-> <<>>, err |-> "nil"], 1)
    IN  [cfg   |-> IF st.err = "nil" THEN Cfg(st.cfg) ELSE NilCfg,
         err   |-> st.err,
         asked |-> st.asked]

\* the answers that accept every default shown
DefaultAnswers == [i \in 1..Len(KeySeq) |-> sEmpty]

-----------------------------------------------------------------------------
(* The menu: type model, initialModel *)

\* config.AvailableRoles()
Roles == <<"base", "git-config", "shell", "dev-tools">>

RoleIdx == 0..(Len(Roles) - 1)

\* len(mainMenu), len(configMenu)
MainMenuItems   == <<"Run Setup", "Dry Run", "Configure", "Update", "Quit">>
ConfigMenuItems == <<"Show Config", "Edit Config", "Config Path", "Back">>

NoCmd == [kind |-> "none", tags |-> <<>>, dryRun |-> FALSE, cfg |-> NilCfg]
QuitCmd == [kind |-> "quit", tags |-> <<>>, dryRun |-> FALSE, cfg |-> NilCfg]
UpdateCmd == [kind |-> "update", tags |-> <<>>, dryRun |-> FALSE, cfg |-> NilCfg]
PlaybookCmd_FirstTagOnly(tags, dry, cfg) ==
    [kind |-> "playbook", tags |-> <<tags[1]>>, dryRun |-> dry, cfg |-> cfg]

PlaybookCmd_ApplyMode(tags, dry, cfg) ==
    [kind |-> "playbook", tags |-> tags, dryRun |-> FALSE, cfg |-> cfg]

\* the closure executePlaybook returns: the tags joined by strings.Join
\* (kept as the list of names, none of which holds a comma), the dryRun
\* flag and the settings it captured
PlaybookCmd(tags, dry, cfg) ==
    [kind |-> "playbook", tags |-> tags, dryRun |-> dry, cfg |-> cfg]

\* what a handler returns: the new model, the command, and the settings
\* file as the handler left it
Res(mm, f, c) == [m |-> mm, file |-> f, cmd |-> c]

\* configOutput, the text View prints on the show screen, is written by
\* handleConfigMenu and read by no handler; it is left out of the model
initialModel(f) ==
    [ screen       |-> "Main",
      cursor       |-> 0,
      dryRun       |-> FALSE,
      err          |-> "nil",
      message      |-> "",
      quitting     |-> FALSE,
      selected     |-> [i \in RoleIdx |-> TRUE],
      cfg          |-> LoadCfgOf(f),
      editFields   |-> <<>>,
      editCursor   |-> 0,
      editInput    |-> <<>>,
      editDone     |-> FALSE ]

\* the key names tea.KeyMsg.String() gives that the handlers are driven with
MenuKeys == { "up", "k", "down", "j", "enter", "esc", "q", " ", "a", "tab",
              "backspace", "ctrl+c" }

\* keys whose name is a single character: len(key) == 1
OneCharKeys == { "k", "j", "q", " ", "a", "y", "," }

-----------------------------------------------------------------------------
(* The menu: key handlers *)

CursorUp(mm) ==
    IF mm.cursor > 0 THEN [mm EXCEPT !.cursor = mm.cursor - 1] ELSE mm

CursorDown_PastEnd(mm, n) ==
    IF mm.cursor < n THEN [mm EXCEPT !.cursor = mm.cursor + 1] ELSE mm

CursorDown(mm, n) ==
    IF mm.cursor < n - 1 THEN [mm EXCEPT !.cursor = mm.cursor + 1] ELSE mm

Quit(mm, f) == Res([mm EXCEPT !.quitting = TRUE], f, QuitCmd)

handleMainMenu(mm, f, key) ==
    CASE key \in {"up", "k"}   -> Res(CursorUp(mm), f, NoCmd)
      [] key \in {"down", "j"} -> Res(CursorDown(mm, Len(MainMenuItems)), f, NoCmd)
      [] key = "enter" ->
            CASE mm.cursor = 0 ->
                    Res([mm EXCEPT !.dryRun = FALSE, !.screen = "Roles", !.cursor = 0],
                        f, NoCmd)
              [] mm.cursor = 1 ->
                    Res([mm EXCEPT !.dryRun = TRUE, !.screen = "Roles", !.cursor = 0],
                        f, NoCmd)
              [] mm.cursor = 2 ->
                    Res([mm EXCEPT !.screen = "ConfigMenu", !.cursor = 0], f, NoCmd)
              [] mm.cursor = 3 ->
                    Res([mm EXCEPT !.screen = "Running", !.message = "Updating flux..."],
                        f, UpdateCmd)
              [] mm.cursor = 4 -> Quit(mm, f)
              [] OTHER -> Res(mm, f, NoCmd)
      [] key = "q" -> Quit(mm, f)
      [] OTHER -> Res(mm, f, NoCmd)

AllSelected(sel) == \A i \in RoleIdx : sel[i]

ToggleAllValue_AlwaysSelect(allSelected) == TRUE

\* the value 'a' gives every role: !allSelected
ToggleAllValue(allSelected) == ~allSelected

ToggleAll(sel) == [i \in RoleIdx |-> ToggleAllValue(AllSelected(sel))]

\* the roles selected, in the order of the role list
RECURSIVE TagsFrom(_, _)
TagsFrom(sel, i) ==
    IF i > Len(Roles) - 1 THEN <<>>
    ELSE (IF sel[i] THEN <<Roles[i + 1]>> ELSE <<>>) \o TagsFrom(sel, i + 1)

\* what PromptForConfig(nil) may return when it succeeds
PromptResults == { PromptForConfig(NilCfg, DefaultAnswers).cfg.doc }

\* LoadOrCreate(): the outcomes [cfg, err, file]
LoadOrCreate(f) ==
    IF LoadErrOf(f) = "nil"
      THEN { [cfg |-> LoadCfgOf(f), err |-> "nil", file |-> f] }
      ELSE { [cfg |-> NilCfg, err |-> "prompt_failed", file |-> f] }
           \cup { [cfg |-> Cfg(d), err |-> "nil", file |-> FileWith(Marshal(d))]
                    : d \in PromptResults }
           \cup { [cfg |-> NilCfg, err |-> "save_failed", file |-> g]
                    : g \in FailedSaveFiles(f) }


executePlaybook(mm, f) ==
    LET loads == IF mm.cfg.nil
                   THEN LoadOrCreate(f)
                   ELSE { [cfg |-> mm.cfg, err |-> "nil", file |-> f] }
    IN  { IF lo.err # "nil"
            THEN Res([mm EXCEPT !.screen = "Done", !.message = "Config error",
                                !.err = lo.err],
                     lo.file, NoCmd)
            ELSE LET m1   == [mm EXCEPT !.cfg = lo.cfg]
                     tags == TagsFrom(m1.selected, 0)
                 IN  IF Len(tags) = 0
                       THEN Res([m1 EXCEPT !.message = "No roles selected"],
                                lo.file, NoCmd)
                       ELSE Res([m1 EXCEPT !.screen = "Running"], lo.file,
                                PlaybookCmd(tags, m1.dryRun, m1.cfg))
          : lo \in loads }

handleRoleSelect(mm, f, key) ==
    CASE key \in {"up", "k"}   -> { Res(CursorUp(mm), f, NoCmd) }
      [] key \in {"down", "j"} -> { Res(CursorDown(mm, Len(Roles)), f, NoCmd) }
      [] key = " " ->
            { Res([mm EXCEPT !.selected[mm.cursor] = ~mm.selected[mm.cursor]],
                  f, NoCmd) }
      [] key = "a" ->
            { Res([mm EXCEPT !.selected = ToggleAll(mm.selected)], f, NoCmd) }
      [] key = "enter" -> executePlaybook(mm, f)
      [] key = "esc" ->
            { Res([mm EXCEPT !.screen = "Main", !.cursor = 0], f, NoCmd) }
      [] OTHER -> { Res(mm, f, NoCmd) }

\* the text an edit field starts with
FieldText(d, k) ==
    IF k \in BoolKeys THEN boolStr(d[k])
    ELSE IF k \in ListKeys THEN JoinCommaSpace(d[k].items)
    ELSE d[k]

initEditFields(mm) ==
    LET cfg == IF mm.cfg.nil THEN Cfg(DefaultConfig) ELSE mm.cfg
        fields == [i \in 1..Len(KeySeq) |-> FieldText(cfg.doc, KeySeq[i])]
    IN  [mm EXCEPT !.cfg = cfg, !.editFields = fields, !.editInput = fields[1]]

\* the value applyEditFields stores for a field
FieldValue(k, text) ==
    IF k \in BoolKeys THEN parseBool(text)
    ELSE IF k \in ListKeys THEN ParsePackages(text)
    ELSE text

applyEditFields(mm) ==
    LET cfg == IF mm.cfg.nil THEN Cfg(DefaultConfig) ELSE mm.cfg
        at(k) == CHOOSE i \in 1..Len(KeySeq) : KeySeq[i] = k
    IN  [mm EXCEPT !.cfg =
            Cfg([k \in Keys |->
                   IF at(k) <= Len(mm.editFields)
                     THEN FieldValue(k, mm.editFields[at(k)])
                     ELSE cfg.doc[k]])]

handleConfigMenu(mm, f, key) ==
    CASE key \in {"up", "k"}   -> Res(CursorUp(mm), f, NoCmd)
      [] key \in {"down", "j"} -> Res(CursorDown(mm, Len(ConfigMenuItems)), f, NoCmd)
      [] key = "enter" ->
            CASE mm.cursor = 0 ->
                    Res([mm EXCEPT !.screen = "ConfigShow"], f, NoCmd)
              [] mm.cursor = 1 ->
                    Res(initEditFields([mm EXCEPT !.screen = "ConfigEdit",
                                                  !.editCursor = 0,
                                                  !.editDone = FALSE]), f, NoCmd)
              [] mm.cursor = 2 ->
                    Res([mm EXCEPT !.screen = "ConfigShow"], f, NoCmd)
              [] mm.cursor = 3 ->
                    Res([mm EXCEPT !.screen = "Main", !.cursor = 0], f, NoCmd)
              [] OTHER -> Res(mm, f, NoCmd)
      [] key = "esc" -> Res([mm EXCEPT !.screen = "Main", !.cursor = 0], f, NoCmd)
      [] OTHER -> Res(mm, f, NoCmd)

BackScreen_ConfigMenu == "ConfigMenu"

\* where handleAnyKeyBack goes
BackScreen == "Main"

handleAnyKeyBack(mm, f, key) ==
    IF key \in {"esc", "enter", "q"}
      THEN Res([mm EXCEPT !.screen = BackScreen, !.cursor = 0, !.err = "nil",
                          !.message = ""], f, NoCmd)
      ELSE Res(mm, f, NoCmd)

\* the commit branch of handleConfigEdit: apply, Save, back to the menu
CommitEdit(mm, f) ==
    LET m1 == applyEditFields(mm)
        back(x) == [x EXCEPT !.screen = "ConfigMenu", !.cursor = 0]
    IN  { Res(back(m1), FileWith(Marshal(m1.cfg.doc)), NoCmd) }
        \cup { Res(back([m1 EXCEPT !.message = "Error saving"]), g, NoCmd)
                 : g \in FailedSaveFiles(f) }

handleConfigEdit(mm, f, key) ==
    LET last == Len(mm.editFields) - 1
        at(i) == mm.editFields[i + 1]
    IN
    IF mm.editDone
      THEN IF key \in {"enter", "esc"} THEN CommitEdit(mm, f) ELSE { Res(mm, f, NoCmd) }
      ELSE
        CASE key \in {"up", "shift+tab"} ->
                { Res(IF mm.editCursor > 0
                        THEN [mm EXCEPT !.editCursor = mm.editCursor - 1,
                                        !.editInput = at(mm.editCursor - 1)]
                        ELSE mm, f, NoCmd) }
          [] key \in {"down", "tab"} ->
                { Res(IF mm.editCursor < last
                        THEN [mm EXCEPT !.editCursor = mm.editCursor + 1,
                                        !.editInput = at(mm.editCursor + 1)]
                        ELSE mm, f, NoCmd) }
          [] key = "enter" ->
                LET m1 == [mm EXCEPT !.editFields[mm.editCursor + 1] = mm.editInput]
                IN  { Res(IF mm.editCursor < last
                            THEN [m1 EXCEPT !.editCursor = mm.editCursor + 1,
                                            !.editInput = m1.editFields[mm.editCursor + 2]]
                            ELSE [m1 EXCEPT !.editDone = TRUE], f, NoCmd) }
          [] key = "backspace" ->
                { Res(IF Len(mm.editInput) > 0
                        THEN [mm EXCEPT !.editInput =
                                 SubSeq(mm.editInput, 1, Len(mm.editInput) - 1)]
                        ELSE mm, f, NoCmd) }
          [] key = "esc" ->
                { Res([mm EXCEPT !.screen = "ConfigMenu", !.cursor = 0], f, NoCmd) }
          [] OTHER ->
                { Res(IF key \in OneCharKeys
                        THEN [mm EXCEPT !.editInput = Append(mm.editInput, key)]
                        ELSE mm, f, NoCmd) }

RunningHandled_AsAnyKey == TRUE

\* whether handleKey has a case for the running screen
RunningHandled == FALSE

handleKey(mm, f, key) ==
    IF key = "ctrl+c" THEN { Quit(mm, f) }
    ELSE CASE mm.screen = "Main"       -> { handleMainMenu(mm, f, key) }
           [] mm.screen = "Roles"      -> handleRoleSelect(mm, f, key)
           [] mm.screen = "ConfigMenu" -> { handleConfigMenu(mm, f, key) }
           [] mm.screen \in {"ConfigShow", "Done"} -> { handleAnyKeyBack(mm, f, key) }
           [] mm.screen = "ConfigEdit" -> handleConfigEdit(mm, f, key)
           [] mm.screen = "Running" /\ RunningHandled -> { handleAnyKeyBack(mm, f, key) }
           [] OTHER -> { Res(mm, f, NoCmd) }

\* Update on playbookDoneMsg / updateDoneMsg
DoneMessage(mm, msg) ==
    IF msg.kind = "playbook"
      THEN IF msg.err # "nil" THEN "Playbook failed"
           ELSE IF mm.dryRun THEN "Dry run complete" ELSE "Setup complete"
      ELSE IF msg.err # "nil" THEN "Update failed" ELSE "Updated"

UpdateOnDone(mm, msg) ==
    [mm EXCEPT !.screen = "Done", !.err = msg.err, !.message = DoneMessage(mm, msg)]

\* View: the part of the screen that renders m.message; only the role
\* screen (when it is not empty) and the done screen print it
ViewMessage(mm) ==
    IF mm.screen \in {"Roles", "Done"} THEN mm.message ELSE ""

-----------------------------------------------------------------------------
(* The menu: the tea program around Update *)

\* the characters typed into an edit field
TypedChars == { "y" }

\* the keys that move through the edit fields, confirm or cancel
EditKeys == { "up", "down", "tab", "shift+tab", "enter", "esc", "ctrl+c" }

\* the errors a finished command carries
PlaybookErrs == { "nil", "ansible_missing", "no_ansible_dir", "exit_status" }
UpdateErrs   == { "nil", "update_failed" }

RemoveAt(q, i) == SubSeq(q, 1, i - 1) \o SubSeq(q, i + 1, Len(q))

MenuIdle ==
    /\ m = initialModel(AbsentFile)
    /\ cmds = <<>>
    /\ msgs = <<>>
    /\ typed = 0
    /\ selHist = <<>>

\* tea.NewProgram(initialModel())
MenuInit ==
    /\ file \in FileInputs
    /\ m = initialModel(file)
    /\ cmds = <<>>
    /\ msgs = <<>>
    /\ typed = 0
    /\ selHist = <<>>

\* Update(tea.KeyMsg): the program runs the handler, keeps the model it
\* returns and starts the command it returns
Key(key) ==
    /\ ~m.quitting
    /\ \E r \in handleKey(m, file, key) :
          /\ m' = r.m
          /\ file' = r.file
          /\ cmds' = IF r.cmd.kind \in {"playbook", "update"}
                       THEN Append(cmds, r.cmd) ELSE cmds
    /\ selHist' = IF m.screen = "Roles" /\ key = "a"
                    THEN <<m.selected>> \o
                         (IF selHist = <<>> THEN <<>> ELSE <<selHist[1]>>)
                    ELSE <<>>
    /\ UNCHANGED msgs
    /\ MenuFrame

KeyMain ==
    /\ m.screen = "Main"
    /\ \E key \in MenuKeys : Key(key)
    /\ UNCHANGED typed

KeyRoles ==
    /\ m.screen = "Roles"
    /\ \E key \in MenuKeys : Key(key)
    /\ UNCHANGED typed

KeyConfigMenu ==
    /\ m.screen = "ConfigMenu"
    /\ \E key \in MenuKeys : Key(key)
    /\ UNCHANGED typed

\* the config menu without opening the editor
KeyConfigMenuView ==
    /\ m.screen = "ConfigMenu"
    /\ \E key \in MenuKeys : (key = "enter" => m.cursor # 1) /\ Key(key)
    /\ UNCHANGED typed

KeyAnyKeyBack ==
    /\ m.screen \in {"ConfigShow", "Done"}
    /\ \E key \in MenuKeys : Key(key)
    /\ UNCHANGED typed

KeyConfigEdit ==
    /\ m.screen = "ConfigEdit"
    /\ \E key \in EditKeys : Key(key)
    /\ UNCHANGED typed

\* a character typed into, or erased from, the field being edited
KeyConfigEditType ==
    /\ m.screen = "ConfigEdit"
    /\ typed < MaxTyped
    /\ \E key \in TypedChars \cup {"backspace"} : Key(key)
    /\ typed' = typed + 1

\* the main menu without starting a run or an update
KeyMainConfigure ==
    /\ m.screen = "Main"
    /\ \E key \in MenuKeys : (key = "enter" => m.cursor \in {2, 4}) /\ Key(key)
    /\ UNCHANGED typed

\* the role screen without the keys that change the selection
KeyRolesRun ==
    /\ m.screen = "Roles"
    /\ \E key \in MenuKeys \ {" ", "a"} : Key(key)
    /\ UNCHANGED typed

KeyRunning ==
    /\ m.screen = "Running"
    /\ \E key \in MenuKeys : Key(key)
    /\ UNCHANGED typed

\* the goroutine of executePlaybook returns playbookDoneMsg{err}
PlaybookFinish ==
    /\ ~m.quitting
    /\ \E i \in 1..Len(cmds), e \in PlaybookErrs :
          /\ cmds[i].kind = "playbook"
          /\ cmds' = RemoveAt(cmds, i)
          /\ msgs' = Append(msgs, [kind |-> "playbook", err |-> e])
    /\ UNCHANGED <<m, file, typed, selHist>>
    /\ MenuFrame

\* the update command returns updateDoneMsg{err}
UpdateFinish ==
    /\ ~m.quitting
    /\ \E i \in 1..Len(cmds), e \in UpdateErrs :
          /\ cmds[i].kind = "update"
          /\ cmds' = RemoveAt(cmds, i)
          /\ msgs' = Append(msgs, [kind |-> "update", err |-> e])
    /\ UNCHANGED <<m, file, typed, selHist>>
    /\ MenuFrame

\* Update(playbookDoneMsg) / Update(updateDoneMsg)
DeliverDone ==
    /\ ~m.quitting
    /\ \E i \in 1..Len(msgs) :
          /\ m' = UpdateOnDone(m, msgs[i])
          /\ msgs' = RemoveAt(msgs, i)
    /\ selHist' = <<>>
    /\ UNCHANGED <<file, cmds, typed>>
    /\ MenuFrame

\* the menu driven by a user who selects roles, runs and updates
MenuNext ==
    \/ KeyMain
    \/ KeyRoles
    \/ KeyConfigMenuView
    \/ KeyAnyKeyBack
    \/ KeyRunning
    \/ PlaybookFinish
    \/ UpdateFinish
    \/ DeliverDone

\* the menu driven by a user who visits every screen and runs every role
MenuScreensNext ==
    \/ KeyMain
    \/ KeyRolesRun
    \/ KeyConfigMenu
    \/ KeyAnyKeyBack
    \/ KeyConfigEdit
    \/ KeyRunning
    \/ PlaybookFinish
    \/ UpdateFinish
    \/ DeliverDone

\* the menu driven by a user who only edits the settings
MenuTypeNext ==
    \/ KeyMainConfigure
    \/ KeyConfigMenu
    \/ KeyAnyKeyBack
    \/ KeyConfigEdit
    \/ KeyConfigEditType

-----------------------------------------------------------------------------
(* The command line: cmdRun, cmdConfig("edit"), RunPlaybookCLI *)

sN == <<"n">>
sPkgLine == <<" ">> \o sJq \o <<",", " ", ",">> \o sHtop \o <<" ">>

\* the lines a user types that are not empty
AnswerLines == { sN, sPkgLine }

\* standard input: up to one line per field, at most MaxAnswers of them not
\* empty; reading past the last line is end of file
RECURSIVE LinesWith(_, _)
LinesWith(n, k) ==
    IF k = 0 THEN { [i \in 1..n |-> sEmpty] }
    ELSE LinesWith(n, k - 1) \cup
         { [s EXCEPT ![i] = a] : s \in LinesWith(n, k - 1), i \in 1..n, a \in AnswerLines }

StdinInputs == UNION { LinesWith(n, MaxAnswers) : n \in 0..Len(KeySeq) }

\* the sub-invocations that read no line and take no flag: config show,
\* config without a sub-command, config with an unknown one, update, and an
\* unknown command
PlainCmds == {"show", "config", "config bogus", "update", "bogus"}

CliInputs ==
    [ cmd : {"run", "edit"}, stdin : StdinInputs, dryRun : BOOLEAN,
      file : FileInputs \cup {PartialFile} ]
    \cup [ cmd : PlainCmds, stdin : {<<>>}, dryRun : {FALSE},
           file : FileInputs \cup {PartialFile} ]

CliIdle ==
    /\ cIn = [cmd |-> "none", stdin |-> <<>>, dryRun |-> FALSE, file |-> AbsentFile]
    /\ cPc = "idle"
    /\ cCfg = NilCfg
    /\ cOut = <<>>
    /\ cAsked = <<>>
    /\ cSteps = <<>>
    /\ cExit = "none"

CliInit ==
    /\ cIn \in CliInputs
    /\ file = cIn.file
    /\ cPc = "start"
    /\ cCfg = NilCfg
    /\ cOut = <<>>
    /\ cAsked = <<>>
    /\ cSteps = <<>>
    /\ cExit = "none"

\* config.Exists()
Exists(f) == f.state # "absent"

\* os.Exit(1) after a message on stderr
ExitWith(msg) ==
    /\ cOut' = Append(cOut, msg)
    /\ cExit' = "1"
    /\ cPc' = "exit"

\* cmdRun, LoadOrCreate: Load succeeded
RunLoadOk ==
    /\ cPc = "start" /\ cIn.cmd = "run"
    /\ LoadErrOf(file) = "nil"
    /\ cCfg' = LoadCfgOf(file)
    /\ cPc' = "cli"
    /\ UNCHANGED <<file, cIn, cOut, cAsked, cSteps, cExit>>
    /\ CliFrame

\* cmdRun, LoadOrCreate: Load failed, whatever the reason
RunLoadErr ==
    /\ cPc = "start" /\ cIn.cmd = "run"
    /\ LoadErrOf(file) # "nil"
    /\ cOut' = Append(cOut, "No config found. Let's set up your preferences.")
    /\ cCfg' = NilCfg
    /\ cPc' = "prompt"
    /\ UNCHANGED <<file, cIn, cAsked, cSteps, cExit>>
    /\ CliFrame

\* cmdConfig("edit"): Load, and the warning when the file exists
EditLoad ==
    /\ cPc = "start" /\ cIn.cmd = "edit"
    /\ cCfg' = LoadCfgOf(file)
    /\ cOut' = IF LoadErrOf(file) # "nil" /\ Exists(file)
                 THEN cOut \o <<"Warning: config file is corrupt",
                                "Starting with defaults. Your old config will be overwritten on save.">>
                 ELSE cOut
    /\ cPc' = "prompt"
    /\ UNCHANGED <<file, cIn, cAsked, cSteps, cExit>>
    /\ CliFrame

\* PromptForConfig returned a document
PromptOk ==
    /\ cPc = "prompt"
    /\ LET r == PromptForConfig(cCfg, cIn.stdin)
       IN  /\ r.err = "nil"
           /\ cCfg' = r.cfg
           /\ cAsked' = r.asked
    /\ cPc' = "save"
    /\ UNCHANGED <<file, cIn, cOut, cSteps, cExit>>
    /\ CliFrame

\* PromptForConfig returned an error
PromptFail ==
    /\ cPc = "prompt"
    /\ LET r == PromptForConfig(cCfg, cIn.stdin)
       IN  /\ r.err # "nil"
           /\ cAsked' = r.asked
    /\ ExitWith(IF cIn.cmd = "run" THEN "Error with config" ELSE "Error")
    /\ UNCHANGED <<file, cIn, cCfg, cSteps>>
    /\ CliFrame

\* Save(cfg) returned nil
CliSaveOk ==
    /\ cPc = "save"
    /\ file' = FileWith(Marshal(cCfg.doc))
    /\ IF cIn.cmd = "run"
         THEN /\ cOut' = Append(cOut, "Config saved")
              /\ cPc' = "cli"
              /\ cExit' = cExit
         ELSE /\ cOut' = Append(cOut, "Config updated.")
              /\ cPc' = "exit"
              /\ cExit' = "0"
    /\ UNCHANGED <<cIn, cCfg, cAsked, cSteps>>
    /\ CliFrame

\* Save(cfg) returned an error
CliSaveFail ==
    /\ cPc = "save"
    /\ file' \in FailedSaveFiles(file)
    /\ ExitWith(IF cIn.cmd = "run" THEN "Error with config" ELSE "Error saving config")
    /\ UNCHANGED <<cIn, cCfg, cAsked, cSteps>>
    /\ CliFrame

\* RunPlaybookCLI: EnsureInstalled returned nil
CliEnsureOk ==
    /\ cPc = "cli"
    /\ cOut' = Append(cOut, "Running setup for user")
    /\ cSteps' = Append(cSteps, "EnsureInstalled")
    /\ cPc' = "find"
    /\ UNCHANGED <<file, cIn, cCfg, cAsked, cExit>>
    /\ CliFrame

\* RunPlaybookCLI: EnsureInstalled returned an error
CliEnsureFail ==
    /\ cPc = "cli"
    /\ cOut' = cOut \o <<"Running setup for user", "Failed to install Ansible">>
    /\ cSteps' = Append(cSteps, "EnsureInstalled")
    /\ cExit' = "1"
    /\ cPc' = "exit"
    /\ UNCHANGED <<file, cIn, cCfg, cAsked>>
    /\ CliFrame

\* RunPlaybookCLI: FindAnsibleDir returned a directory
CliFindOk ==
    /\ cPc = "find"
    /\ cSteps' = Append(cSteps, "FindAnsibleDir")
    /\ cPc' = "playbook"
    /\ UNCHANGED <<file, cIn, cCfg, cOut, cAsked, cExit>>
    /\ CliFrame

\* RunPlaybookCLI: FindAnsibleDir returned an error
CliFindFail ==
    /\ cPc = "find"
    /\ cSteps' = Append(cSteps, "FindAnsibleDir")
    /\ ExitWith("Cannot find ansible directory")
    /\ UNCHANGED <<file, cIn, cCfg, cAsked>>
    /\ CliFrame

\* RunPlaybookCLI: RunPlaybook returned nil, main returns
CliPlaybookOk ==
    /\ cPc = "playbook"
    /\ cSteps' = Append(cSteps, "RunPlaybook")
    /\ cOut' = Append(cOut, IF cIn.dryRun THEN "Dry run complete" ELSE "Setup complete!")
    /\ cExit' = "0"
    /\ cPc' = "exit"
    /\ UNCHANGED <<file, cIn, cCfg, cAsked>>
    /\ CliFrame

\* RunPlaybookCLI: RunPlaybook returned an error
CliPlaybookFail ==
    /\ cPc = "playbook"
    /\ cSteps' = Append(cSteps, "RunPlaybook")
    /\ ExitWith("Playbook failed")
    /\ UNCHANGED <<file, cIn, cCfg, cAsked>>
    /\ CliFrame

\* cmdConfig("show"): Load succeeded, the document is printed, main returns
ShowOk ==
    /\ cPc = "start" /\ cIn.cmd = "show"
    /\ LoadErrOf(file) = "nil"
    /\ cCfg' = LoadCfgOf(file)
    /\ cOut' = Append(cOut, "config printed")
    /\ cExit' = "0"
    /\ cPc' = "exit"
    /\ UNCHANGED <<file, cIn, cAsked, cSteps>>
    /\ CliFrame

ShowFail_ExitZero ==
    /\ cPc = "start" /\ cIn.cmd = "show"
    /\ LoadErrOf(file) # "nil"
    /\ cOut' = Append(cOut, "No config found. Run 'flux' to create one.")
    /\ cExit' = "0"
    /\ cPc' = "exit"
    /\ UNCHANGED <<file, cIn, cCfg, cAsked, cSteps>>
    /\ CliFrame

\* cmdConfig("show"): Load failed
ShowFail ==
    /\ cPc = "start" /\ cIn.cmd = "show"
    /\ LoadErrOf(file) # "nil"
    /\ ExitWith("No config found. Run 'flux' to create one.")
    /\ UNCHANGED <<file, cIn, cCfg, cAsked, cSteps>>
    /\ CliFrame

\* `flux config` without a sub-command (main) or with an unknown one
\* (cmdConfig default)
ConfigUsage ==
    /\ cPc = "start" /\ cIn.cmd \in {"config", "config bogus"}
    /\ cOut' = cOut \o (IF cIn.cmd = "config" THEN <<>>
                         ELSE <<"Unknown config command">>)
                    \o <<"Usage: flux config [show|edit|path]">>
    /\ cExit' = "1"
    /\ cPc' = "exit"
    /\ UNCHANGED <<file, cIn, cCfg, cAsked, cSteps>>
    /\ CliFrame

\* `flux update`: updater.Update() returned nil, main returns
CliUpdateOk ==
    /\ cPc = "start" /\ cIn.cmd = "update"
    /\ cSteps' = Append(cSteps, "Update")
    /\ cExit' = "0"
    /\ cPc' = "exit"
    /\ UNCHANGED <<file, cIn, cCfg, cOut, cAsked>>
    /\ CliFrame

\* `flux update`: updater.Update() returned an error
CliUpdateFail ==
    /\ cPc = "start" /\ cIn.cmd = "update"
    /\ cSteps' = Append(cSteps, "Update")
    /\ ExitWith("Update failed")
    /\ UNCHANGED <<file, cIn, cCfg, cAsked>>
    /\ CliFrame

\* main, default: an unknown command
UnknownCommand ==
    /\ cPc = "start" /\ cIn.cmd = "bogus"
    /\ cOut' = cOut \o <<"Unknown command", "usage">>
    /\ cExit' = "1"
    /\ cPc' = "exit"
    /\ UNCHANGED <<file, cIn, cCfg, cAsked, cSteps>>
    /\ CliFrame

CliNext ==
    \/ RunLoadOk
    \/ RunLoadErr
    \/ EditLoad
    \/ PromptOk
    \/ PromptFail
    \/ CliSaveOk
    \/ CliSaveFail
    \/ CliEnsureOk
    \/ CliEnsureFail
    \/ CliFindOk
    \/ CliFindFail
    \/ CliPlaybookOk
    \/ CliPlaybookFail
    \/ ShowOk
    \/ ShowFail
    \/ ConfigUsage
    \/ CliUpdateOk
    \/ CliUpdateFail
    \/ UnknownCommand

-----------------------------------------------------------------------------
(* FindAnsibleDir (runner.go) *)

CallIdle == fIn = <<>> /\ fPc = "idle" /\ fOut = <<>>

\* `for i := 0; i < 10; i++`
WalkMax == 10

\* A candidate directory: <base>/(../)^up/ansible.  Candidates of different
\* bases are kept apart; when two of them name the same directory they hold
\* the same entry, which is one of the filesystems drawn below.
Slot(base, up) == [base |-> base, up |-> up]

NoSlot == Slot("none", 0)

Slots(depth) ==
    {Slot("home", 0)} \cup { Slot("exe", u) : u \in 0..2 }
                      \cup { Slot("cwd", u) : u \in 0..depth }

\* what os.Stat(<candidate>/playbook.yml) finds, symbolic links followed:
\* nothing, a regular file, a directory, or another kind of file
EntryTypes == {"none", "file", "dir", "other"}

\* every candidate directory, in a fixed enumeration
SlotSeq(depth) ==
    <<Slot("home", 0), Slot("exe", 0), Slot("exe", 1), Slot("exe", 2)>>
    \o [u \in 1..(depth + 1) |-> Slot("cwd", u - 1)]

\* The filesystems drawn: at most k candidates hold an entry playbook.yml.
\* A filesystem is the list of these entries, in the enumeration's order.
RECURSIVE FsWith(_, _, _)
FsWith(depth, from, k) ==
    IF k = 0 THEN { <<>> }
    ELSE { <<>> } \cup
         UNION { { <<[slot |-> SlotSeq(depth)[i], type |-> t]>> \o rest :
                     t \in EntryTypes \ {"none"},
                     rest \in FsWith(depth, i + 1, k - 1) } :
                 i \in from..Len(SlotSeq(depth)) }

\* os.Stat(filepath.Join(dir, "playbook.yml"))
Stat(fs, dir) ==
    IF \E i \in 1..Len(fs) : fs[i].slot = dir
    THEN fs[CHOOSE i \in 1..Len(fs) : fs[i].slot = dir].type
    ELSE "none"

\* which of os.UserHomeDir, os.Executable, os.Getwd succeed
FindEnvs ==
    { [home |-> TRUE,  exe |-> TRUE,  cwd |-> TRUE],
      [home |-> FALSE, exe |-> TRUE,  cwd |-> TRUE],
      [home |-> TRUE,  exe |-> FALSE, cwd |-> TRUE],
      [home |-> TRUE,  exe |-> TRUE,  cwd |-> FALSE] }


\* the working directory is the root, one below it, or MaxDepth below it
Depths == {0, 1, MaxDepth}

\* the loop over dir := cwd; level = depth is the root, whose parent is itself
RECURSIVE Walk(_, _, _)
Walk(i, level, depth) ==
    IF i >= WalkMax THEN <<>>
    ELSE <<Slot("cwd", level)>>
         \o (IF level = depth THEN <<>> ELSE Walk(i + 1, level + 1, depth))

FindCandidates_CwdFirst(in) ==
    (IF in.env.cwd THEN Walk(0, 0, in.depth) ELSE <<>>)
    \o (IF in.env.home THEN <<Slot("home", 0)>> ELSE <<>>)
    \o (IF in.env.exe THEN <<Slot("exe", 0), Slot("exe", 1), Slot("exe", 2)>>
        ELSE <<>>)

FindCandidates(in) ==
    (IF in.env.home THEN <<Slot("home", 0)>> ELSE <<>>)
    \o (IF in.env.exe THEN <<Slot("exe", 0), Slot("exe", 1), Slot("exe", 2)>>
        ELSE <<>>)
    \o (IF in.env.cwd THEN Walk(0, 0, in.depth) ELSE <<>>)

isAnsibleDir(fs, dir) == Stat(fs, dir) \notin {"none", "dir"}

FindAnsibleDir(in) ==
    LET cs == FindCandidates(in)
        ok == { i \in 1..Len(cs) : isAnsibleDir(in.fs, cs[i]) }
    IN  IF ok = {}
        THEN [dir |-> NoSlot, err |-> "cannot find ansible/ directory"]
        ELSE [dir |-> cs[CHOOSE i \in ok : \A j \in ok : i <= j], err |-> "nil"]

FindInit ==
    /\ \E d \in Depths, e \in FindEnvs :
           \E fs \in FsWith(d, 1, MaxEntries) :
               fIn = [env |-> e, depth |-> d, fs |-> fs]
    /\ fPc = "call"
    /\ fOut = [dir |-> NoSlot, err |-> "pending"]

FindFound ==
    /\ fPc = "call"
    /\ FindAnsibleDir(fIn).err = "nil"
    /\ fOut' = FindAnsibleDir(fIn)
    /\ fPc' = "done"
    /\ UNCHANGED fIn
    /\ CallFrame

FindNotFound ==
    /\ fPc = "call"
    /\ FindAnsibleDir(fIn).err # "nil"
    /\ fOut' = FindAnsibleDir(fIn)
    /\ fPc' = "done"
    /\ UNCHANGED fIn
    /\ CallFrame

FindNext ==
    \/ FindFound
    \/ FindNotFound

-----------------------------------------------------------------------------
(* The two readers of a package text: the prompter and the menu's editor *)

TextChars == {"a", "b", ",", " "}

\* "ripgrep, , fd-find,  "
sPkgExample == sRipgrep \o <<",", " ", ",", " ">> \o sFdFind \o <<",", " ", " ">>

Texts ==
    UNION { [1..n -> TextChars] : n \in 0..MaxText } \cup {sPkgExample, sPkgLine}

PkgInit ==
    /\ fIn \in [text : Texts, current : {NilList, List(<<sJq>>)}]
    /\ fPc = "call"
    /\ fOut = [by |-> "none", list |-> NilList]

\* PromptForConfig's last prompt, answered with the text
PkgPrompt ==
    /\ fPc = "call"
    /\ fOut' = [by |-> "prompter", list |-> PromptPackages(fIn.text, fIn.current)]
    /\ fPc' = "done"
    /\ UNCHANGED fIn
    /\ CallFrame

\* applyEditFields on the extra_packages field holding the text
PkgEdit ==
    /\ fPc = "call"
    /\ fOut' = [by |-> "editor", list |-> ParsePackages(fIn.text)]
    /\ fPc' = "done"
    /\ UNCHANGED fIn
    /\ CallFrame

PkgNext ==
    \/ PkgPrompt
    \/ PkgEdit

-----------------------------------------------------------------------------
(* ToExtraVars: config.go (a flat map of strings) and part_001 (a typed map,
   read by the runner of runner.go:88 and :176) *)

sLateST == <<"l","a","t","e","S","T">>

\* strings.EqualFold
EqualFold(a, b) == ToLower(a) = ToLower(b)

\* strings.Join(items, ",")
RECURSIVE JoinComma(_)
JoinComma(items) ==
    IF items = <<>> THEN <<>>
    ELSE IF Len(items) = 1 THEN items[1]
    ELSE items[1] \o <<",">> \o JoinComma(Tail(items))

\* config.go: every scalar field, booleans through boolStr; the packages
\* joined, only when there is one
ToExtraVars(c) ==
    [ k \in { x \in Keys : x \notin ListKeys \/ Len(c[x].items) > 0 } |->
        IF k \in BoolKeys THEN boolStr(c[k])
        ELSE IF k \in ListKeys THEN JoinComma(c[k].items)
        ELSE c[k] ]

\* part_001: go_version is never passed; dotnet_version and python_version
\* unless they fold to "latest"; install_k9s; the packages as a list, a nil
\* one replaced by an empty one
ToExtraVarsTyped(c, k9s) ==
    [ k \in ((Keys \cup {"install_k9s"})
               \ { x \in {"go_version", "dotnet_version", "python_version"} :
                     x = "go_version" \/ EqualFold(c[x], sLatest) }) |->
        IF k = "install_k9s" THEN k9s
        ELSE IF k \in ListKeys THEN c[k].items
        ELSE c[k] ]

VersionInputs == { sLatest, sLateST, s1_26, sEmpty }

VarsInit ==
    /\ fIn \in { [doc |-> [DefaultConfig EXCEPT !.go_version = g,
                                                !.dotnet_version = d,
                                                !.python_version = p,
                                                !.extra_packages = l],
                   k9s |-> TRUE] :
                  g \in VersionInputs, d \in VersionInputs,
                  p \in VersionInputs, l \in PkgInputs }
    /\ fPc = "call"
    /\ fOut = [by |-> "none", vars |-> NoData]

VarsFlat ==
    /\ fPc = "call"
    /\ fOut' = [by |-> "config.go", vars |-> ToExtraVars(fIn.doc)]
    /\ fPc' = "done"
    /\ UNCHANGED fIn
    /\ CallFrame

VarsTyped ==
    /\ fPc = "call"
    /\ fOut' = [by |-> "part_001", vars |-> ToExtraVarsTyped(fIn.doc, fIn.k9s)]
    /\ fPc' = "done"
    /\ UNCHANGED fIn
    /\ CallFrame

VarsNext ==
    \/ VarsFlat
    \/ VarsTyped

-----------------------------------------------------------------------------
(* EnsureInstalled / EnsureInstalledStreaming (runner.go) *)

\* cmds, each joined with " "
InstallCmds ==
    << "sudo apt-get update -qq",
       "sudo apt-get install -y -qq software-properties-common",
       "sudo apt-add-repository --yes --update ppa:ansible/ansible",
       "sudo apt-get install -y -qq ansible" >>

\* what running a command ends in: cmd.Run / runCmdStreaming returns nil,
\* returns an error, or (runCmdStreaming only) never returns
Outcomes(variant) ==
    IF variant = "streaming" THEN {"ok", "fail", "hang"} ELSE {"ok", "fail"}

EnsureInputs ==
    UNION { { [variant |-> v, onPath |-> TRUE,
               outcome |-> [i \in 1..Len(InstallCmds) |-> "ok"]] }
            \cup { [variant |-> v, onPath |-> FALSE, outcome |-> o] :
                     o \in [1..Len(InstallCmds) -> Outcomes(v)] } :
            v \in {"plain", "streaming"} }

EnsureInit ==
    /\ fIn \in EnsureInputs
    /\ fPc = "call"
    /\ fOut = [ran |-> <<>>, next |-> 1, out |-> <<>>, err |-> "pending"]

\* exec.LookPath("ansible-playbook") succeeds
EnsureFound ==
    /\ fPc = "call"
    /\ fIn.onPath
    /\ fOut' = [fOut EXCEPT !.err = "nil",
                            !.out = IF fIn.variant = "streaming"
                                    THEN <<"ansible-playbook already installed">>
                                    ELSE <<>>]
    /\ fPc' = "done"
    /\ UNCHANGED fIn
    /\ CallFrame

\* exec.LookPath fails: "Installing Ansible..." and the loop is entered
EnsureMissing ==
    /\ fPc = "call"
    /\ ~fIn.onPath
    /\ fOut' = [fOut EXCEPT !.out = <<"Installing Ansible...">>]
    /\ fPc' = "cmd"
    /\ UNCHANGED fIn
    /\ CallFrame

\* one iteration of the loop, the command having run: what is recorded
Ran ==
    [fOut EXCEPT !.ran = Append(@, InstallCmds[fOut.next]),
                 !.out = IF fIn.variant = "streaming"
                         THEN Append(@, InstallCmds[fOut.next]) ELSE @]

\* the command returns nil: next iteration, or `return nil` after the last
EnsureCmdOk ==
    /\ fPc = "cmd"
    /\ fIn.outcome[fOut.next] = "ok"
    /\ IF fOut.next = Len(InstallCmds)
         THEN fOut' = [Ran EXCEPT !.err = "nil"] /\ fPc' = "done"
         ELSE fOut' = [Ran EXCEPT !.next = @ + 1] /\ fPc' = "cmd"
    /\ UNCHANGED fIn
    /\ CallFrame

EnsureCmdFail_Continue ==
    /\ fPc = "cmd"
    /\ fIn.outcome[fOut.next] = "fail"
    /\ IF fOut.next = Len(InstallCmds)
         THEN fOut' = [Ran EXCEPT !.err = InstallCmds[fOut.next]] /\ fPc' = "done"
         ELSE fOut' = [Ran EXCEPT !.next = @ + 1] /\ fPc' = "cmd"
    /\ UNCHANGED fIn
    /\ CallFrame

\* the command returns an error: `return fmt.Errorf("command %q failed: %w")`
EnsureCmdFail ==
    /\ fPc = "cmd"
    /\ fIn.outcome[fOut.next] = "fail"
    /\ fOut' = [Ran EXCEPT !.err = InstallCmds[fOut.next]]
    /\ fPc' = "done"
    /\ UNCHANGED fIn
    /\ CallFrame

\* runCmdStreaming never returns (cmd.Wait blocked behind an over-long line)
EnsureCmdHang ==
    /\ fPc = "cmd"
    /\ fIn.outcome[fOut.next] = "hang"
    /\ fOut' = Ran
    /\ fPc' = "hung"
    /\ UNCHANGED fIn
    /\ CallFrame

EnsureNext ==
    \/ EnsureFound
    \/ EnsureMissing
    \/ EnsureCmdOk
    \/ EnsureCmdFail
    \/ EnsureCmdHang

-----------------------------------------------------------------------------
(* One dispatched run: the goroutine of executePlaybook (menu) and
   RunPlaybookCLI (`flux run`) *)

RunSteps == <<"EnsureInstalled", "FindAnsibleDir", "RunPlaybook">>

\* the error a failing step returns, and what RunPlaybookCLI prints for it
StepErr == <<"ansible_missing", "no_ansible_dir", "exit_status">>
StepMsg == <<"Failed to install Ansible", "Cannot find ansible directory",
             "Playbook failed">>

DispatchInit ==
    /\ fIn \in [front : {"menu", "cli"}, dryRun : BOOLEAN, tags : {"", "base"},
                 fails : [1..Len(RunSteps) -> BOOLEAN]]
    /\ fPc = "call"
    /\ fOut = [steps |-> <<>>, msgs |-> <<>>, out |-> <<>>, exits |-> <<>>]

\* step i is called and returns nil
StepOk(i) ==
    /\ fPc = "call"
    /\ Len(fOut.steps) = i - 1
    /\ ~fIn.fails[i]
    /\ LET o == [fOut EXCEPT !.steps = Append(@, RunSteps[i])]
       IN  IF i < Len(RunSteps)
           THEN fOut' = o /\ fPc' = "call"
           ELSE /\ fPc' = "done"
                /\ fOut' = IF fIn.front = "menu"
                            THEN [o EXCEPT !.msgs = Append(@, [kind |-> "playbook",
                                                              err |-> "nil"])]
                            ELSE [o EXCEPT !.out = Append(@,
                                      IF fIn.dryRun THEN "Dry run complete"
                                      ELSE "Setup complete!")]
    /\ UNCHANGED fIn
    /\ CallFrame

StepFail_Continue(i) ==
    /\ fPc = "call"
    /\ Len(fOut.steps) = i - 1
    /\ fIn.fails[i]
    /\ fOut' = [fOut EXCEPT !.steps = Append(@, RunSteps[i])]
    /\ fPc' = IF i < Len(RunSteps) THEN "call" ELSE "done"
    /\ UNCHANGED fIn
    /\ CallFrame

\* step i is called and returns an error: `return playbookDoneMsg{err: err}`
\* in the goroutine, the message on stderr and os.Exit(1) on the command line
StepFail(i) ==
    /\ fPc = "call"
    /\ Len(fOut.steps) = i - 1
    /\ fIn.fails[i]
    /\ fOut' = IF fIn.front = "menu"
               THEN [fOut EXCEPT !.steps = Append(@, RunSteps[i]),
                                 !.msgs = Append(@, [kind |-> "playbook",
                                                     err |-> StepErr[i]])]
               ELSE [fOut EXCEPT !.steps = Append(@, RunSteps[i]),
                                 !.out = Append(@, StepMsg[i]),
                                 !.exits = Append(@, "1")]
    /\ fPc' = "done"
    /\ UNCHANGED fIn
    /\ CallFrame

DispatchEnsureOk     == StepOk(1)
DispatchEnsureFail   == StepFail(1)
DispatchFindOk       == StepOk(2)
DispatchFindFail     == StepFail(2)
DispatchPlaybookOk   == StepOk(3)
DispatchPlaybookFail == StepFail(3)

DispatchNext ==
    \/ DispatchEnsureOk
    \/ DispatchEnsureFail
    \/ DispatchFindOk
    \/ DispatchFindFail
    \/ DispatchPlaybookOk
    \/ DispatchPlaybookFail

-----------------------------------------------------------------------------
(* One field read by the prompter (config.go, part_001) and by the menu's
   editor (applyEditFields): a boolean, and the shell *)

sYES   == <<"Y","E","S">>
sYPad  == <<" ", "y", " ">>
sFish  == <<"f","i","s","h">>

\* what a user may enter for a field
Entries ==
    { sEmpty, sY, sYES, sYes, sYPad, s1, sTrue, sN, sFalse, sBash, sZsh, sFish }

\* part_001: var validShells
validShells == { sBash, sZsh }

\* part_001: `for { cfg.DefaultShell, err = prompt(...); if validShells[...]
\* { break } }` reading the lines; the rejected value is the next default
RECURSIVE PromptShellLoop(_, _)
PromptShellLoop(lines, current) ==
    IF lines = <<>> THEN [shell |-> current, err |-> "EOF"]
    ELSE LET v == prompt(Head(lines), current, sZsh)
         IN  IF v \in validShells THEN [shell |-> v, err |-> "nil"]
             ELSE PromptShellLoop(Tail(lines), v)

FieldInit ==
    /\ \E n \in 0..MaxTries : \E ls \in [1..n -> Entries] :
          \E b \in BOOLEAN, s \in {sEmpty, sBash} :
              fIn = [lines |-> ls, bool |-> b, shell |-> s]
    /\ fPc = "call"
    /\ fOut = [by |-> "none", field |-> "none", bool |-> FALSE,
               shell |-> sEmpty, err |-> "pending"]

FieldDone(by, field, b, s, e) ==
    /\ fOut' = [by |-> by, field |-> field, bool |-> b, shell |-> s, err |-> e]
    /\ fPc' = "done"
    /\ UNCHANGED fIn
    /\ CallFrame

\* promptBool (the same in config.go and part_001)
FieldBoolPrompt ==
    /\ fPc = "call"
    /\ IF fIn.lines = <<>>
         THEN FieldDone("prompter", "bool", FALSE, fIn.shell, "EOF")
         ELSE FieldDone("prompter", "bool",
                        promptBool(Head(fIn.lines), fIn.bool), fIn.shell, "nil")

\* applyEditFields on a boolean field holding the text
FieldBoolEdit ==
    /\ fPc = "call"
    /\ fIn.lines # <<>>
    /\ FieldDone("editor", "bool", parseBool(Head(fIn.lines)), fIn.shell, "nil")

\* config.go: cfg.DefaultShell, err = prompt(..., cfg.DefaultShell, "zsh")
FieldShellPrompt ==
    /\ fPc = "call"
    /\ IF fIn.lines = <<>>
         THEN FieldDone("config.go", "shell", fIn.bool, sEmpty, "EOF")
         ELSE FieldDone("config.go", "shell", fIn.bool,
                        prompt(Head(fIn.lines), fIn.shell, sZsh), "nil")

\* part_001: the shell prompt in its loop
FieldShellPromptLoop ==
    /\ fPc = "call"
    /\ LET r == PromptShellLoop(fIn.lines, fIn.shell)
       IN  FieldDone("part_001", "shell", fIn.bool, r.shell, r.err)

\* applyEditFields: m.cfg.DefaultShell = f.value
FieldShellEdit ==
    /\ fPc = "call"
    /\ fIn.lines # <<>>
    /\ FieldDone("editor", "shell", fIn.bool, Head(fIn.lines), "nil")

FieldNext ==
    \/ FieldBoolPrompt
    \/ FieldBoolEdit
    \/ FieldShellPrompt
    \/ FieldShellPromptLoop
    \/ FieldShellEdit

-----------------------------------------------------------------------------
(* Specifications *)

StoreSpecInit == StoreInit /\ RunIdle /\ StreamIdle /\ MenuIdle /\ CliIdle /\ CallIdle

StoreSpec == StoreSpecInit /\ [][StoreNext]_vars

RunSpecInit == RunInit /\ StoreIdle /\ StreamIdle /\ MenuIdle /\ CliIdle /\ CallIdle

RunSpec == RunSpecInit /\ [][RunNext]_vars

StreamSpecInit == StreamInit /\ StoreIdle /\ RunIdle /\ MenuIdle /\ CliIdle /\ CallIdle

StreamSpec == StreamSpecInit /\ [][StreamNext]_vars

\* every goroutine and the subprocess keep running while they can
StreamFairSpec == StreamSpec /\ WF_vars(StreamNext)

MenuSpecInit ==
    /\ MenuInit
    /\ doc = NoData /\ storePc = "idle" /\ saveErr = "nil"
    /\ loaded = NilCfg /\ loadErr = "nil"
    /\ RunIdle /\ StreamIdle /\ CliIdle /\ CallIdle

MenuSpec == MenuSpecInit /\ [][MenuNext]_vars

MenuScreensSpecInit == MenuSpecInit

MenuScreensSpec == MenuScreensSpecInit /\ [][MenuScreensNext]_vars

MenuTypeSpecInit == MenuSpecInit

MenuTypeSpec == MenuTypeSpecInit /\ [][MenuTypeNext]_vars

CliSpecInit ==
    /\ CliInit
    /\ doc = NoData /\ storePc = "idle" /\ saveErr = "nil"
    /\ loaded = NilCfg /\ loadErr = "nil"
    /\ RunIdle /\ StreamIdle /\ MenuIdle /\ CallIdle

CliSpec == CliSpecInit /\ [][CliNext]_vars

OthersIdle == StoreIdle /\ RunIdle /\ StreamIdle /\ MenuIdle /\ CliIdle

FindSpecInit == FindInit /\ OthersIdle

FindSpec == FindSpecInit /\ [][FindNext]_vars

PkgSpecInit == PkgInit /\ OthersIdle

PkgSpec == PkgSpecInit /\ [][PkgNext]_vars

VarsSpecInit == VarsInit /\ OthersIdle

VarsSpec == VarsSpecInit /\ [][VarsNext]_vars

EnsureSpecInit == EnsureInit /\ OthersIdle

EnsureSpec == EnsureSpecInit /\ [][EnsureNext]_vars

DispatchSpecInit == DispatchInit /\ OthersIdle

DispatchSpec == DispatchSpecInit /\ [][DispatchNext]_vars

FieldSpecInit == FieldInit /\ OthersIdle

FieldSpec == FieldSpecInit /\ [][FieldNext]_vars

-----------------------------------------------------------------------------
(* Properties of RunPlaybook / RunPlaybookStreaming (RunSpec) *)

HasArg(args, a) == \E i \in 1..Len(args) : args[i] = a

\* C1: when RunPlaybookStreaming, called as non-root with a non-empty become
\* password, has returned, the temporary password file does not exist,
\* whichever return path was taken after its creation.
C1_TmpFileRemovedOnReturn ==
    (rPc = "returned" /\ rIn.variant = "streaming" /\ ~rIn.root /\ rIn.pass # "")
        => ~rTmp.exists

\* a call that created the file, wrote the secret, launched the subprocess
\* and returned its failure
C1_Witness ==
    /\ rPc = "returned" /\ rErr = "exit_status"
    /\ rDefer /\ HasArg(rCmd, "--become-password-file")
    /\ ~rTmp.exists

\* C2: the argument list handed to ansible-playbook contains both --check
\* and --diff if and only if dryRun is true, in both variants.
C2_DryRunIffCheckDiff ==
    rCmd # <<>> =>
        ((HasArg(rCmd, "--check") /\ HasArg(rCmd, "--diff")) <=> rIn.dryRun)

\* a dry run launched with extra vars, a tag filter and a password file
C2_Witness ==
    /\ rPc = "running" /\ rIn.dryRun /\ rIn.hasVars /\ rIn.tags = "--diff"
    /\ HasArg(rCmd, "--become-password-file")
    /\ HasArg(rCmd, "--check")

\* the positions of an option in an argument list
ArgPos(args, a) == { i \in 1..Len(args) : args[i] = a }

SecretSupplied == rIn.variant = "streaming" /\ rIn.pass # ""

-----------------------------------------------------------------------------
(* Properties of runCmdStreaming (StreamSpec) *)

AllLines == [i \in 1..Len(qIn.lines) |-> i]

\* C3 as claimed: when runCmdStreaming returns after a started subprocess,
\* every line the subprocess wrote has been delivered to onOutput, exactly
\* once and in the order written.
C3_AllLinesDelivered ==
    (qMain = "returned" /\ qProc = "exited") => qDelivered = AllLines

\* C4 as claimed: once the subprocess has written everything and exited,
\* runCmdStreaming goes on until it has returned (it is never stuck before),
\* and when it has returned the reader goroutine has ended.
C4_ReturnsAfterExit ==
    /\ qProc = "exited" => (qMain = "returned" \/ ENABLED StreamNext)
    /\ (qMain = "returned" /\ qProc = "exited") => qReader = "done"

\* C4 in temporal form, under StreamFairSpec
C4_EventuallyReturns == (qProc = "exited") ~> (qMain = "returned")

-----------------------------------------------------------------------------
(* Properties of the settings store (StoreSpec) *)

\* field-wise equality, an unset list counting as equal to an empty one
DocEq(a, b) ==
    /\ \A k \in Keys \ ListKeys : a[k] = b[k]
    /\ \A k \in ListKeys : a[k].items = b[k].items

\* C9: after Save(d) returned nil, Load() succeeds and returns a document
\* equal to d field by field.
C9_SaveLoadRoundTrip ==
    (storePc = "loaded" /\ saveErr = "nil")
        => (loadErr = "nil" /\ ~loaded.nil /\ DocEq(loaded.doc, doc))

\* a round trip of a document with an omitted version field, a string the
\* encoder has to quote, and an unset list
C9_Witness ==
    /\ storePc = "loaded" /\ saveErr = "nil"
    /\ doc.go_version = sEmpty /\ doc.username = sTilde
    /\ doc.extra_packages.nil
    /\ "go_version" \notin DOMAIN file.data
    /\ file.data.username.style = "quoted"

\* C10 as claimed: a document saved with an unset or empty extra-packages
\* list leaves the extra_packages key in the file, with an empty sequence.
C10_EmptyListKeyPresent ==
    (storePc = "saved" /\ saveErr = "nil"
        /\ IsEmptyValue("extra_packages", doc.extra_packages))
        => ("extra_packages" \in DOMAIN file.data
              /\ file.data.extra_packages = <<>>)

\* C10 as amended: the written file holds the extra_packages key exactly
\* when the list is non-empty; an unset or empty list is omitted from it.
C10_EmptyListKeyOmitted ==
    (storePc = "saved" /\ saveErr = "nil")
        => /\ file.state = "ok"
           /\ ("extra_packages" \in DOMAIN file.data)
                <=> ~IsEmptyValue("extra_packages", doc.extra_packages)

\* an empty (not unset) list was saved
C10_Witness ==
    /\ storePc = "saved" /\ saveErr = "nil"
    /\ ~doc.extra_packages.nil /\ doc.extra_packages.items = <<>>
    /\ "extra_packages" \notin DOMAIN file.data

\* C11, as stated: a document returned by Load holds, for every field the
\* settings file does not contain, the default of DefaultConfig.
C11_MissingFieldsTakeDefaults ==
    (storePc = "loaded" /\ loadErr = "nil")
        => \A k \in Keys \ DOMAIN file.data : loaded.doc[k] = DefaultConfig[k]

-----------------------------------------------------------------------------
(* Properties of the menu (MenuSpec, MenuScreensSpec) *)

NoneSelected(sel) == \A i \in RoleIdx : ~sel[i]

\* the screen changes the specification lists
ListedTransitions ==
    { <<"Main", "Roles">>, <<"Main", "ConfigMenu">>, <<"Main", "Running">>,
      <<"Main", "Done">>,
      <<"ConfigMenu", "ConfigShow">>, <<"ConfigMenu", "ConfigEdit">>,
      <<"ConfigMenu", "Main">>,
      <<"Roles", "Running">>, <<"Running", "Done">>, <<"Done", "Main">> }

\* the screen changes of the handlers
HandlerTransitions ==
    { <<"Main", "Roles">>, <<"Main", "ConfigMenu">>, <<"Main", "Running">>,
      <<"ConfigMenu", "ConfigShow">>, <<"ConfigMenu", "ConfigEdit">>,
      <<"ConfigMenu", "Main">>,
      <<"Roles", "Running">>, <<"Roles", "Main">>, <<"Roles", "Done">>,
      <<"ConfigShow", "Main">>, <<"ConfigEdit", "ConfigMenu">>,
      <<"Running", "Done">>, <<"Done", "Main">> }

\* C5, as stated: every change of screen is one of Main to RoleSelect,
\* ConfigMenu, Running or Done; ConfigMenu to ConfigShow, ConfigEdit or
\* Main; RoleSelect to Running; Running to Done; Done to Main.
C5_OnlyListedTransitions ==
    [][m'.screen # m.screen => <<m.screen, m'.screen>> \in ListedTransitions]_vars

\* C5, amended: every change of screen is one of Main to RoleSelect,
\* ConfigMenu or Running; ConfigMenu to ConfigShow, ConfigEdit or Main;
\* RoleSelect to Running, Main or Done; ConfigShow to Main; ConfigEdit to
\* ConfigMenu; Running to Done; Done to Main.
C5_OnlyHandlerTransitions ==
    [][m'.screen # m.screen => <<m.screen, m'.screen>> \in HandlerTransitions]_vars

\* the role screen was left for Done by a settings error
C5_Witness ==
    /\ m.screen = "Done"
    /\ m.message = "Config error"
    /\ m.err # "nil"
    /\ cmds = <<>> /\ msgs = <<>>

\* C6: while the screen is Running a key other than ctrl+c changes no field
\* of the model, and the model changes only by ctrl+c (quitting) or by a
\* completion message, which gives screen Done and err the message's error.
C6_RunningOnlyLeftByCompletion ==
    [][ m.screen = "Running" =>
          /\ (\E key \in MenuKeys \ {"ctrl+c"} : Key(key)) => m' = m
          /\ m' # m =>
                \/ m' = [m EXCEPT !.quitting = TRUE]
                \/ \E i \in 1..Len(msgs) :
                      /\ msgs' = RemoveAt(msgs, i)
                      /\ m'.screen = "Done"
                      /\ m'.err = msgs[i].err ]_vars

\* a run has failed and its message has been handled
C6_Witness ==
    /\ m.screen = "Done"
    /\ m.err = "exit_status"
    /\ m.message = "Playbook failed"
    /\ cmds = <<>> /\ msgs = <<>>

\* C7, as stated: enter on the role screen with no role selected dispatches
\* nothing, keeps the screen, the settings file and the settings in memory,
\* and sets no err, also when no settings were loaded at startup.
C7_EnterWithNoRoleIsNoOp ==
    [][ (m.screen = "Roles" /\ NoneSelected(m.selected) /\ Key("enter")) =>
          /\ cmds' = cmds
          /\ m'.screen = "Roles"
          /\ file' = file
          /\ m'.cfg = m.cfg
          /\ m'.err = m.err ]_vars

\* C8, as stated: after 'a' was pressed twice in a row the selection is the
\* selection before the first press, whatever that selection was.
C8_ToggleAllTwiceRestores ==
    Len(selHist) = 2 => m.selected = selHist[2]

\* C8, amended: after 'a' was pressed twice in a row the selection is the
\* selection before the first press when that selection had every role or
\* no role selected.
C8_ToggleAllTwiceRestoresUniform ==
    (Len(selHist) = 2 /\ (AllSelected(selHist[2]) \/ NoneSelected(selHist[2])))
        => m.selected = selHist[2]

\* 'a' was pressed twice starting with no role selected
C8_Witness ==
    /\ Len(selHist) = 2
    /\ NoneSelected(selHist[2])
    /\ AllSelected(selHist[1])
    /\ NoneSelected(m.selected)

\* C20, as stated: while the edit screen is being entered or is shown and
\* the final field has not been confirmed, no key changes the in-memory
\* settings document or the settings file; they change only in the step
\* taken after the final field was confirmed.
C20_EditsStagedUntilConfirmed ==
    [][ ((m.screen = "ConfigEdit" \/ m'.screen = "ConfigEdit")
            /\ ~(m.screen = "ConfigEdit" /\ m.editDone))
          => (m'.cfg = m.cfg /\ file' = file) ]_vars

\* C20 without the step that enters the edit screen
C20_EditsStagedOnceEntered ==
    [][ (m.screen = "ConfigEdit" /\ ~m.editDone)
          => (m'.cfg = m.cfg /\ file' = file) ]_vars

\* a key press that dispatches a playbook run: the command started
Dispatched ==
    /\ Len(cmds') = Len(cmds) + 1
    /\ cmds'[Len(cmds')].kind = "playbook"

\* C21, as stated: at every dispatch of a playbook run by the menu, the
\* settings file exists and its content, loaded, equals field by field the
\* document the run converts into its parameters.
C21_RunDocumentEqualsFile ==
    [][ Dispatched =>
          /\ file'.state = "ok"
          /\ DocEq(cmds'[Len(cmds')].cfg.doc, LoadCfgOf(file').doc) ]_vars

\* the commit of the edit screen, Save having failed
\* the position of a role name in the available role list
RolePos(r) == CHOOSE i \in 1..Len(Roles) : Roles[i] = r

\* C27: the tags of a run dispatched from the menu are exactly the roles
\* that were selected when enter was pressed, in the order of the available
\* role list: each is an available role, none appears twice, and there is
\* at least one.
C27_TagsAreSelectionInOrder ==
    [][ Dispatched =>
          LET tags == cmds'[Len(cmds')].tags
          IN  /\ Len(tags) > 0
              /\ \A i \in 1..Len(tags) : \E j \in 1..Len(Roles) : tags[i] = Roles[j]
              /\ \A i, j \in 1..Len(tags) : i < j => RolePos(tags[i]) < RolePos(tags[j])
              /\ { tags[i] : i \in 1..Len(tags) }
                    = { Roles[i + 1] : i \in { k \in RoleIdx : m.selected[k] } } ]_vars

\* a run with two of the four roles, the first and the last, is in flight
C27_Witness ==
    \E i \in 1..Len(cmds) :
        cmds[i].kind = "playbook" /\ cmds[i].tags = <<"base", "dev-tools">>

\* C28: the role screen is entered only from the main menu, through Run
\* Setup or Dry Run, and that step sets dryRun to whether the item was Dry
\* Run; no key pressed on the role screen changes dryRun while the screen
\* stays; and a dispatched run carries the dryRun of the role screen it was
\* started from. So the run's flag is the item role selection was last
\* entered through.
C28_DryRunIsEntryItem ==
    [][ /\ (m.screen # "Roles" /\ m'.screen = "Roles") =>
              /\ m.screen = "Main"
              /\ MainMenuItems[m.cursor + 1] \in {"Run Setup", "Dry Run"}
              /\ m'.dryRun = (MainMenuItems[m.cursor + 1] = "Dry Run")
        /\ (m.screen = "Roles" /\ m'.screen = "Roles") => m'.dryRun = m.dryRun
        /\ Dispatched =>
              /\ m.screen = "Roles"
              /\ cmds'[Len(cmds')].dryRun = m.dryRun ]_vars

\* a dry run of a changed selection is in flight
C28_Witness ==
    /\ \E i \in 1..Len(cmds) : cmds[i].kind = "playbook" /\ cmds[i].dryRun
    /\ m.screen = "Running"
    /\ ~AllSelected(m.selected)

\* a playbook run or a self-update was started by this step
TaskDispatched == Len(cmds') = Len(cmds) + 1

\* a completion message was handed to Update by this step
DoneReceived == Len(msgs') = Len(msgs) - 1

\* the tasks running and the completion messages not yet received
InFlight == Len(cmds) + Len(msgs)

\* C29: at most one background task is in flight; a task is dispatched only
\* by a step that moves the screen to Running, and only when none is in
\* flight; a completion message is received only while the screen is
\* Running.
C29_OneTaskInFlight ==
    [][ /\ InFlight <= 1
        /\ InFlight' <= 1
        /\ TaskDispatched =>
              /\ m.screen # "Running" /\ m'.screen = "Running"
              /\ InFlight = 0
        /\ DoneReceived => m.screen = "Running" ]_vars

\* an update has finished and its completion message waits to be received,
\* with the screen still Running
C29_Witness ==
    /\ m.screen = "Running"
    /\ InFlight = 1
    /\ \E i \in 1..Len(msgs) : msgs[i].kind = "update"

\* C30: the cursor is an index of the list of the screen shown (main menu,
\* role list, config menu), editCursor is an index of the edit fields on the
\* edit screen, and the selection holds a value for each available role and
\* for nothing else.
C30_CursorsAreValidIndexes ==
    /\ m.screen = "Main"       => m.cursor \in 0..(Len(MainMenuItems) - 1)
    /\ m.screen = "Roles"      => m.cursor \in 0..(Len(Roles) - 1)
    /\ m.screen = "ConfigMenu" => m.cursor \in 0..(Len(ConfigMenuItems) - 1)
    /\ m.screen = "ConfigEdit" => m.editCursor \in 0..(Len(m.editFields) - 1)
    /\ DOMAIN m.selected = RoleIdx

\* every field of the editor has been confirmed: editCursor is on the last
C30_Witness ==
    /\ m.screen = "ConfigEdit" /\ m.editDone
    /\ m.editCursor = Len(m.editFields) - 1

CommitFailed ==
    /\ m.screen = "ConfigEdit" /\ m.editDone
    /\ m'.screen = "ConfigMenu"
    /\ file' # FileWith(Marshal(m'.cfg.doc))

\* C25, as stated: the screen reached by a commit whose Save failed displays
\* the save error, and no screen other than that one displays it later.
C25_SaveErrorShownOnce ==
    [][ /\ CommitFailed => ViewMessage(m') = "Error saving"
        /\ m'.screen # "ConfigMenu" => ViewMessage(m') # "Error saving" ]_vars

\* the save error printed by the role screen
C25_StaleErrorOnRoles == ~(m.screen = "Roles" /\ ViewMessage(m) = "Error saving")

-----------------------------------------------------------------------------
(* Properties of the command line and the prompter (CliSpec) *)

Printed(msg) == \E i \in 1..Len(cOut) : cOut[i] = msg

\* C12, as stated: when the settings file exists and cannot be parsed, every
\* command that loads it prints the warning, and the file keeps its content
\* until the prompts were completed and the result is saved.
C12_CorruptFileWarnedAndKept ==
    cIn.file.state = "corrupt" =>
        /\ cPc # "start" => Printed("Warning: config file is corrupt")
        /\ file # cIn.file => (cPc \in {"cli", "find", "playbook", "exit"}
                                /\ Len(cAsked) > 0 /\ ~cCfg.nil)

\* the conditional groups: sub-field |-> parent boolean
GroupParent ==
    [ podman_wsl_distro |-> "install_podman",
      podman_wsl_host   |-> "install_podman",
      podman_wsl_port   |-> "install_podman",
      go_version        |-> "install_go",
      dotnet_version    |-> "install_dotnet",
      python_version    |-> "install_python" ]

\* the document PromptForConfig started from: the existing one, or the
\* defaults when it was called with nil
Existing ==
    IF cIn.cmd = "edit" /\ cIn.file.state = "ok"
    THEN LoadCfgOf(cIn.file).doc ELSE DefaultConfig

Saved == Printed("Config saved") \/ Printed("Config updated.")

PromptReturned == Len(cAsked) > 0 /\ (cPc = "save" \/ Saved)

\* C14: when PromptForConfig returned a document whose parent boolean is
\* false, no sub-field of that group was asked for, the document holds the
\* sub-field values it started from, and the file Save wrote holds them too
\* (an empty value as an omitted key, which reads back empty).
C14_SubFieldsKeptUnasked ==
    \A k \in DOMAIN GroupParent :
        (PromptReturned /\ ~cCfg.doc[GroupParent[k]]) =>
            /\ \A i \in 1..Len(cAsked) : cAsked[i] # k
            /\ cCfg.doc[k] = Existing[k]
            /\ Saved =>
                  /\ file.state = "ok"
                  /\ LoadCfgOf(file).doc[k] = Existing[k]
                  /\ Existing[k] # sEmpty => k \in DOMAIN file.data

\* an existing document with podman enabled, the question answered no, and
\* the saved file still holding the podman host
C14_Witness ==
    /\ Saved /\ cIn.cmd = "edit" /\ cIn.file.state = "ok"
    /\ Existing.install_podman /\ ~cCfg.doc.install_podman
    /\ \E i \in 1..Len(cAsked) : cAsked[i] = "install_podman"
    /\ \E i \in 1..Len(cAsked) : cAsked[i] = "install_go"
    /\ "podman_wsl_host" \in DOMAIN file.data
    /\ LoadCfgOf(file).doc.podman_wsl_host = sLocalhost

\* what the command line prints when a step failed or the command is not
\* a valid one
FailureMsgs ==
    { "Error with config", "Error", "Error saving config",
      "Failed to install Ansible", "Cannot find ansible directory",
      "Playbook failed", "No config found. Run 'flux' to create one.",
      "Update failed", "Usage: flux config [show|edit|path]", "Unknown command" }

FailureReported == \E i \in 1..Len(cOut) : cOut[i] \in FailureMsgs

\* C26: when the command has ended, its exit status is 1 if a failure was
\* reported and 0 otherwise; and it is 0 only when the command did all its
\* work: the three steps of a run on a loaded or created document, the
\* document saved by config edit, the file loaded by config show, the update
\* done.
C26_ExitStatusReflectsFailure ==
    cPc = "exit" =>
        /\ cExit = (IF FailureReported THEN "1" ELSE "0")
        /\ cExit = "0" =>
              CASE cIn.cmd = "run" ->
                      /\ cSteps = <<"EnsureInstalled", "FindAnsibleDir", "RunPlaybook">>
                      /\ ~cCfg.nil
                      /\ LoadErrOf(cIn.file) # "nil" => file = FileWith(Marshal(cCfg.doc))
                [] cIn.cmd = "edit" ->
                      ~cCfg.nil /\ file = FileWith(Marshal(cCfg.doc))
                [] cIn.cmd = "show" -> LoadErrOf(cIn.file) = "nil" /\ file = cIn.file
                [] cIn.cmd = "update" -> cSteps = <<"Update">>
                [] OTHER -> FALSE

\* config show on a file that cannot be read as settings: status 1
C26_Witness ==
    /\ cPc = "exit" /\ cIn.cmd = "show" /\ cIn.file.state = "corrupt"
    /\ cExit = "1"

-----------------------------------------------------------------------------
(* Properties of FindAnsibleDir (FindSpec) *)

\* the candidates the result is chosen among: the install directory, the
\* three next to the executable, the working directory and its ancestors,
\* 10 directories in total
Considered(in) ==
    { s \in Slots(in.depth) :
        \/ s.base = "home" /\ in.env.home
        \/ s.base = "exe" /\ in.env.exe
        \/ s.base = "cwd" /\ in.env.cwd /\ s.up < 10 }

\* the position of a candidate in the fixed order
Rank(s) ==
    CASE s.base = "home" -> 0
      [] s.base = "exe"  -> 1 + s.up
      [] OTHER           -> 4 + s.up

FirstOf(valid) ==
    IF valid = {} THEN fOut.err # "nil" /\ fOut.dir = NoSlot
    ELSE /\ fOut.err = "nil"
         /\ fOut.dir \in valid
         /\ \A s \in valid : Rank(fOut.dir) <= Rank(s)

-----------------------------------------------------------------------------
(* Properties of the package readers (PkgSpec) *)

Blank(c) == c \in {" ", "\t", "\n", "\r"}

\* s without its leading and trailing blanks
Strip(s) ==
    LET ink == { i \in 1..Len(s) : ~Blank(s[i]) }
    IN  IF ink = {} THEN <<>>
        ELSE SubSeq(s, CHOOSE i \in ink : \A j \in ink : i <= j,
                       CHOOSE i \in ink : \A j \in ink : i >= j)

\* the pieces between the commas of s, stripped, the empty ones dropped
Pieces(s) ==
    LET commas == { i \in 1..Len(s) : s[i] = "," }
        ends   == commas \cup {Len(s) + 1}
        start(e) == IF \E c \in commas : c < e
                    THEN 1 + CHOOSE c \in commas :
                                 c < e /\ \A d \in commas : d < e => d <= c
                    ELSE 1
        nth(n) == CHOOSE e \in ends : Cardinality({ d \in ends : d < e }) = n - 1
        all == [n \in 1..Cardinality(ends) |->
                    Strip(SubSeq(s, start(nth(n)), nth(n) - 1))]
    IN  SelectSeq(all, LAMBDA p : p # <<>>)

ListOf(items) == IF items = <<>> THEN NilList ELSE List(items)

\* C15, as stated: the prompter and the editor both turn a package text into
\* the list of its stripped non-empty pieces, in order, and into an unset
\* list when there is no such piece.
C15_BothGivePieces ==
    fPc = "done" => fOut.list = ListOf(Pieces(fIn.text))

\* C15, amended: the editor always gives the pieces of the text; the
\* prompter gives them unless the line is blank, and then gives the list it
\* showed as the default: the current list, or ripgrep, fd-find, jq, htop
\* when the current list is empty.
C15_PiecesOrShownDefault ==
    fPc = "done" =>
        IF fOut.by = "prompter" /\ Strip(fIn.text) = <<>>
        THEN fOut.list = List(IF fIn.current.items = <<>>
                              THEN <<sRipgrep, sFdFind, sJq, sHtop>>
                              ELSE fIn.current.items)
        ELSE fOut.list = ListOf(Pieces(fIn.text))

\* the example text read by the prompter
C15_Witness ==
    /\ fPc = "done" /\ fOut.by = "prompter"
    /\ fIn.text = sPkgExample
    /\ fOut.list = List(<<sRipgrep, sFdFind>>)

-----------------------------------------------------------------------------
(* Properties of ToExtraVars (VarsSpec) *)

VersionKeys == {"go_version", "dotnet_version", "python_version"}

\* the fields of the document the function was called on
FieldsOf(by) == IF by = "part_001" THEN Keys \cup {"install_k9s"} ELSE Keys

\* C16, as stated: a version field is left out of the map exactly when it
\* is "latest" in any case and is passed with its value otherwise; every
\* other field is in the map; an unset package list is passed as an empty
\* list.
C16_LatestOmittedOnly ==
    fPc = "done" =>
        /\ \A k \in VersionKeys :
              IF ToLower(fIn.doc[k]) = sLatest
              THEN k \notin DOMAIN fOut.vars
              ELSE k \in DOMAIN fOut.vars /\ fOut.vars[k] = fIn.doc[k]
        /\ \A k \in FieldsOf(fOut.by) \ VersionKeys : k \in DOMAIN fOut.vars
        /\ fIn.doc.extra_packages.nil =>
              /\ "extra_packages" \in DOMAIN fOut.vars
              /\ fOut.vars.extra_packages = <<>>

\* C16 for the function of config.go alone, and for that of part_001 alone
C16_FlatLatestOmitted == fOut.by = "config.go" => C16_LatestOmittedOnly

C16_TypedLatestOmitted == fOut.by = "part_001" => C16_LatestOmittedOnly

-----------------------------------------------------------------------------
(* Properties of EnsureInstalled / EnsureInstalledStreaming (EnsureSpec) *)

\* the commands that fail when run
Failing == { i \in 1..4 : fIn.outcome[i] = "fail" }

\* C18: with ansible-playbook on the lookup path no command is run and the
\* call succeeds; otherwise the commands run are the first ones of the four,
\* in order, none after one that did not succeed; the call returns an error
\* exactly when the last command run failed, the error names that command,
\* and it returns success only when all four have run and succeeded.
C18_InstallInOrderFailFast ==
    /\ fIn.onPath => (fOut.ran = <<>> /\ (fPc = "done" => fOut.err = "nil"))
    /\ Len(fOut.ran) <= 4
    /\ \A i \in 1..Len(fOut.ran) :
          /\ fOut.ran[i] = InstallCmds[i]
          /\ i < Len(fOut.ran) => fIn.outcome[i] = "ok"
    /\ (fPc = "done" /\ ~fIn.onPath) =>
          LET n == Len(fOut.ran)
          IN  /\ n >= 1
              /\ fIn.outcome[n] = "fail" => fOut.err = InstallCmds[n]
              /\ fIn.outcome[n] = "ok" =>
                    (n = 4 /\ fOut.err = "nil" /\ Failing = {})
              /\ fIn.outcome[n] # "hang"

\* the second command fails although the third would too: the first two
\* have run and the error names the second
C18_Witness ==
    /\ fPc = "done" /\ ~fIn.onPath
    /\ Failing = {2, 3}
    /\ fOut.ran = <<InstallCmds[1], InstallCmds[2]>>
    /\ fOut.err = InstallCmds[2]

-----------------------------------------------------------------------------
(* Properties of one dispatched run (DispatchSpec) *)

\* C19: the steps attempted are the first ones of EnsureInstalled,
\* FindAnsibleDir, RunPlaybook, each once and in that order, none after a
\* failed one; nothing is reported before the run ends; a run ended by a
\* failing step reports exactly one outcome carrying that step's failure,
\* one playbookDoneMsg in the menu, one exit with status 1 on the command
\* line; a run whose steps all succeeded reports one playbookDoneMsg without
\* error in the menu and no exit on the command line.
C19_StepsOnceInOrder ==
    LET n == Len(fOut.steps)
    IN  /\ n <= 3
        /\ \A i \in 1..n :
              /\ fOut.steps[i] =
                    <<"EnsureInstalled", "FindAnsibleDir", "RunPlaybook">>[i]
              /\ i < n => ~fIn.fails[i]
        /\ fPc # "done" => (fOut.msgs = <<>> /\ fOut.exits = <<>>)
        /\ fPc = "done" =>
              /\ n >= 1
              /\ ~fIn.fails[n] => n = 3
              /\ IF fIn.front = "menu"
                  THEN /\ Len(fOut.msgs) = 1 /\ fOut.exits = <<>>
                       /\ fOut.msgs[1].err =
                             (IF fIn.fails[n] THEN StepErr[n] ELSE "nil")
                  ELSE /\ fOut.msgs = <<>>
                       /\ fOut.exits = (IF fIn.fails[n] THEN <<"1">> ELSE <<>>)
                       /\ fIn.fails[n] => fOut.out = <<StepMsg[n]>>

\* a menu run whose second step fails although the third would also fail
C19_Witness ==
    /\ fPc = "done" /\ fIn.front = "menu"
    /\ ~fIn.fails[1] /\ fIn.fails[2] /\ fIn.fails[3]
    /\ fOut.steps = <<"EnsureInstalled", "FindAnsibleDir">>
    /\ fOut.msgs = <<[kind |-> "playbook", err |-> "no_ansible_dir"]>>

-----------------------------------------------------------------------------
(* Properties of the field readers (FieldSpec) *)

\* the text entered first, and whether it is empty once stripped
Entered == Head(fIn.lines)

\* C22, as stated: for a non-empty text the editor yields the boolean the
\* prompter yields for the same text, and the editor, like the prompter,
\* stores no other shell than bash or zsh.
C22_EditorValidatesLikePrompter ==
    (fPc = "done" /\ fOut.by = "editor") =>
        /\ (fOut.field = "bool" /\ Strip(Entered) # <<>>)
              => fOut.bool = promptBool(Entered, fIn.bool)
        /\ fOut.field = "shell" => fOut.shell \in {sBash, sZsh}

\* C23, as stated: a non-empty response to a boolean prompt gives true
\* exactly when, stripped and lower-cased, it is y, yes, 1 or true; an
\* empty response gives the current value.
C23_PromptBoolTruthyTokens ==
    (fPc = "done" /\ fOut.by = "prompter" /\ fOut.err = "nil") =>
        IF Strip(Entered) = <<>> THEN fOut.bool = fIn.bool
        ELSE fOut.bool <=> (Strip(ToLower(Entered)) \in {sY, sYes, s1, sTrue})

\* C24, as stated: a shell prompt of the prompter that returns without
\* error leaves bash or zsh in the document.
C24_ShellIsBashOrZsh ==
    (fPc = "done" /\ fOut.field = "shell" /\ fOut.by \in {"config.go", "part_001"}
        /\ fOut.err = "nil")
        => fOut.shell \in {sBash, sZsh}

\* C24 for the prompter of part_001 alone: it also returns without error only
\* on a line that gives bash or zsh, and with an error when the lines run out
C24_LoopShellIsBashOrZsh ==
    (fPc = "done" /\ fOut.by = "part_001") =>
        IF fOut.err = "nil" THEN fOut.shell \in {sBash, sZsh}
        ELSE \A i \in 1..Len(fIn.lines) : Strip(fIn.lines[i]) \notin {sBash, sZsh}

====
